---- MODULE Spec2Model ----
(***************************************************************************)
(* Verification model of trease-tree-compiler: the seeded generator, the   *)
(* structure builders, the auto-fit transform, the growth projectors and   *)
(* the frame loops that stream to the encoder.                             *)
(*                                                                         *)
(* Numbers.  The program computes in IEEE doubles.  The generator is       *)
(* modelled exactly (bit sequences for the 60-bit hashed seed and its      *)
(* rounding to 53 bits, 16-bit limbs afterwards).  Geometry is modelled in *)
(* integer logical units: a draw is quantised to its upper 16 bits, angles *)
(* are whole degrees, and Math.cos/Math.sin are the per-mille values of    *)
(* Bhaskara's rational approximation.  Ratios that decide a claim (the     *)
(* auto-fit scale, localT, the eased size) are kept as exact fractions.    *)
(***************************************************************************)
EXTENDS Integers, Sequences, FiniteSets, TLC

VARIABLES
    rngs,      \* SeededRandom instances: id -> [made, seedString, seed, out]
    runs,      \* generation requests: id -> record (structure, transform, snapshot)
    enc,       \* the encoder process and its stdin, as the frame loop sees them
    loop       \* the frame loop of a streaming generate() call

vars == <<rngs, runs, enc, loop>>

(***************************************************************************)
(* Bounds of the model.                                                    *)
(***************************************************************************)
MaxDraws == 4

Min(a, b) == IF a <= b THEN a ELSE b
Max(a, b) == IF a >= b THEN a ELSE b

(***************************************************************************)
(* Natural numbers wider than TLC's integers: little-endian sequences of   *)
(* 10-bit digits for arithmetic, little-endian bit sequences for rounding. *)
(***************************************************************************)

RECURSIVE Pow2(_)
Pow2(k) == IF k = 0 THEN 1 ELSE 2 * Pow2(k - 1)

RECURSIVE NatDigits(_)
NatDigits(n) == IF n = 0 THEN <<>> ELSE <<(n % 1024)>> \o NatDigits(n \div 1024)

\* a * m for a small multiplier m (m * 1023 + carry stays below 2^31).
RECURSIVE MulDigits(_, _, _)
MulDigits(a, m, carry) ==
    IF a = <<>> THEN NatDigits(carry)
    ELSE LET p == (Head(a) * m) + carry
         IN  <<(p % 1024)>> \o MulDigits(Tail(a), m, p \div 1024)

RECURSIVE AddDigits(_, _, _)
AddDigits(a, b, carry) ==
    IF a = <<>> /\ b = <<>> THEN NatDigits(carry)
    ELSE LET x == IF a = <<>> THEN 0 ELSE Head(a)
             y == IF b = <<>> THEN 0 ELSE Head(b)
             t == x + y + carry
         IN  <<(t % 1024)>> \o AddDigits(IF a = <<>> THEN a ELSE Tail(a),
                                           IF b = <<>> THEN b ELSE Tail(b), t \div 1024)

DigitsToBits(d) ==
    [i \in 1..(Len(d) * 10) |->
        (d[((i - 1) \div 10) + 1] \div Pow2((i - 1) % 10)) % 2]

RECURSIVE BitsNat(_)
BitsNat(b) == IF b = <<>> THEN 0 ELSE Head(b) + (2 * BitsNat(Tail(b)))

BitsToDigits(b) ==
    LET padded == b \o [i \in 1..(10 - 1) |-> 0]
    IN  [j \in 1..((Len(b) + 10 - 1) \div 10) |->
            BitsNat(SubSeq(padded, ((j - 1) * 10) + 1, j * 10))]

\* Number of significant bits of a bit sequence.
BitLength(b) ==
    IF \A i \in 1..Len(b) : b[i] = 0 THEN 0
    ELSE CHOOSE n \in 1..Len(b) : b[n] = 1 /\ \A i \in (n + 1)..Len(b) : b[i] = 0

\* b + 1 on a bit sequence.
Increment(b) ==
    IF \A i \in 1..Len(b) : b[i] = 1 THEN [i \in 1..Len(b) |-> 0] \o <<1>>
    ELSE LET z == CHOOSE n \in 1..Len(b) : b[n] = 0 /\ \A i \in 1..(n - 1) : b[i] = 1
         IN  [i \in 1..Len(b) |-> IF i < z THEN 0 ELSE IF i = z THEN 1 ELSE b[i]]


\* A double holds 53 significant bits: round to nearest, ties to even.
Round53(digits) ==
    LET bits == DigitsToBits(digits)
        n    == BitLength(bits)
        drop == n - 53
    IN  IF drop <= 0 THEN digits
        ELSE LET kept   == SubSeq(bits, drop + 1, n)
                 guard  == bits[drop]
                 sticky == \E i \in 1..(drop - 1) : bits[i] = 1
                 up     == guard = 1 /\ (sticky \/ kept[1] = 1)
             IN  BitsToDigits([i \in 1..drop |-> 0] \o (IF up THEN Increment(kept) ELSE kept))

(***************************************************************************)
(* SeededRandom (src/src/core/seeded-random.ts).                           *)
(***************************************************************************)
Seeds == {"abc", "0"}

\* createHash('sha256').update(seedString).digest('hex').substring(0, 15)
HashPrefix(seedString) ==
    CASE seedString = "abc" -> <<11, 10, 7, 8, 1, 6, 11, 15, 8, 15, 0, 1, 12, 15, 14>>
      [] seedString = "0"   -> <<5, 15, 14, 12, 14, 11, 6, 6, 15, 15, 12, 8, 6, 15, 3>>
      [] seedString = "1"   -> <<6, 11, 8, 6, 11, 2, 7, 3, 15, 15, 3, 4, 15, 12, 14>>
      [] seedString = "15698" -> <<0, 1, 1, 10, 1, 11, 13, 12, 6, 15, 15, 1, 6, 5, 12>>
      [] OTHER              -> <<14, 3, 11, 0, 12, 4, 4, 2, 9, 8, 15, 12, 1, 12, 1>>

\* parseInt(hex, 16): the value of the hex digits, most significant first.
RECURSIVE ParseIntHex(_)
ParseIntHex(hex) ==
    IF hex = <<>> THEN <<>>
    ELSE AddDigits(MulDigits(ParseIntHex(SubSeq(hex, 1, Len(hex) - 1)), 16, 0),
                   NatDigits(hex[Len(hex)]), 0)

LcgA == 1664525
LcgC == 1013904223

\* The constructor: this.seed = parseInt(hash.substring(0, 15), 16), a double.
SeededRandom(seedString) ==
    [wide |-> TRUE, digits |-> Round53(ParseIntHex(HashPrefix(seedString))),
     hi |-> 0, lo |-> 0]

\* (seed * 1664525 + 1013904223) % 4294967296 on a seed of any width, with
\* the two roundings of the double product and sum.
LcgWide(digits) ==
    LET prod == Round53(MulDigits(digits, LcgA, 0))
        sum  == Round53(AddDigits(prod, NatDigits(LcgC), 0))
        low  == DigitsToBits(sum) \o [i \in 1..32 |-> 0]
    IN  [wide |-> FALSE, digits |-> <<>>,
         hi |-> BitsNat(SubSeq(low, 17, 32)), lo |-> BitsNat(SubSeq(low, 1, 16))]

\* The expression without its reduction modulo 2^32.
LcgNarrowUnreduced(hi, lo) ==
    LET p0 == lo * (LcgA % 65536) + (LcgC % 65536)
        p1 == ((hi * (LcgA % 65536)) % 65536) + ((lo * (LcgA \div 65536)) % 65536)
                  + (LcgC \div 65536) + (p0 \div 65536)
    IN  [wide |-> FALSE, digits |-> <<>>, hi |-> p1, lo |-> p0 % 65536]

\* The same expression on a seed below 2^32: the product is below 2^53, so
\* nothing is rounded, and the arithmetic is done on 16-bit limbs.
LcgNarrow(hi, lo) ==
    LET aHi == LcgA \div 65536
        aLo == LcgA % 65536
        cHi == LcgC \div 65536
        cLo == LcgC % 65536
        p0  == lo * aLo + cLo
        p1  == ((hi * aLo) % 65536) + ((lo * aHi) % 65536) + cHi + (p0 \div 65536)
    IN  [wide |-> FALSE, digits |-> <<>>, hi |-> p1 % 65536, lo |-> p0 % 65536]

\* next(): the new value of this.seed; the returned double is seed / 2^32,
\* which the model keeps as the pair (hi, lo) of the numerator's limbs.
next(seed) ==
    IF seed.wide THEN LcgWide(seed.digits) ELSE LcgNarrow(seed.hi, seed.lo)

\* nextFloat(min, max) = min + next() * (max - min) for the draw just made,
\* min and max given in the caller's fixed-point unit (max - min < 2^15) and
\* the draw quantised to its upper limb.
nextFloat(seed, min, max) ==
    min + ((seed.hi * (max - min)) \div 65536)

\* nextInt(min, max) = Math.floor(nextFloat(min, max)), exact for integers.
nextInt(seed, min, max) ==
    min + (((seed.hi * (max - min)) + ((seed.lo * (max - min)) \div 65536)) \div 65536)

\* The seed below 2^32 as a wide natural.
SeedDigits(seed) ==
    AddDigits(NatDigits(seed.lo), MulDigits(NatDigits(seed.hi), 65536, 0), 0)

\* d * 2^32.
Shift32(d) == MulDigits(MulDigits(d, 65536, 0), 65536, 0)

\* A wide natural without its leading zero digits.
RECURSIVE Trim(_)
Trim(d) ==
    IF d = <<>> \/ d[Len(d)] # 0 THEN d ELSE Trim(SubSeq(d, 1, Len(d) - 1))

\* a < b on wide naturals.
DigitsLess(a, b) ==
    LET x == Trim(a)
        y == Trim(b)
    IN  IF Len(x) # Len(y) THEN Len(x) < Len(y)
        ELSE \E i \in 1..Len(x) : x[i] < y[i] /\ \A j \in (i + 1)..Len(x) : x[j] = y[j]

\* The sum that is returned as it is, with no rounding.
NextFloatUnrounded(seed, min, span) ==
    AddDigits(Shift32(min), MulDigits(SeedDigits(seed), span, 0), 0)

\* nextFloat(min, max) = min + next() * (max - min) in doubles, for the draw
\* just made, a natural min (wide) and a small natural span = max - min: the
\* value in units of 2^-32, after the rounding of the product and of the sum.
NextFloatDouble(seed, min, span) ==
    Round53(AddDigits(Shift32(min), Round53(MulDigits(SeedDigits(seed), span, 0)), 0))

(***************************************************************************)
(* Geometry helpers.  Lengths and coordinates are integers in logical      *)
(* units, angles whole degrees, factors per-mille.                         *)
(***************************************************************************)
Abs(x) == IF x < 0 THEN 0 - x ELSE x

\* Math.sin of a whole number of degrees, per-mille (Bhaskara I).
HalfSine(d) == (4000 * d * (180 - d)) \div (40500 - (d * (180 - d)))
Sin(deg) ==
    LET a == deg % 360
    IN  IF a <= 180 THEN HalfSine(a) ELSE 0 - HalfSine(a - 180)
Cos(deg) == Sin(deg + 90)

\* Math.sqrt, rounded down.
Sqrt(n) == CHOOSE r \in 0..n : r * r <= n /\ n < (r + 1) * (r + 1)

Vector2(x, y) == [x |-> x, y |-> y]

\* (1 - t) * a + t * b for t = tn / td.
Lerp(a, b, tn, td) == (((td - tn) * a) + (tn * b)) \div td

\* Wrapping round in place of clamping.
CoerceUnitWrap(n, d) == [num |-> Max(0, n) % (d + 1), den |-> d]

\* coerceIn(n / d, 0, 1) as a fraction over d (d > 0); a zero divisor gives
\* Infinity for n > 0, which clamps to 1.
CoerceUnit(n, d) ==
    IF d = 0 THEN [num |-> 1, den |-> 1]
    ELSE [num |-> Max(0, Min(n, d)), den |-> d]

\* smoothStep(t) = t * t * (3 - 2 * t) for t = num / den, as a fraction.
smoothStep(t) ==
    [num |-> t.num * t.num * ((3 * t.den) - (2 * t.num)), den |-> t.den * t.den * t.den]

(***************************************************************************)
(* Structures.  A Branch is a record [id, start, end, control,             *)
(* strokeWidth, length, distFromRoot, children, entities]; id is the       *)
(* object's identity (its path from the root), which the program has as    *)
(* the object reference.  Entity colours are not modelled; the draws that  *)
(* choose them are made.  A builder returns the Branch and the generator's *)
(* seed after the draws it made.                                           *)
(***************************************************************************)
Branch(id, start, end, strokeWidth, control, length, distFromRoot, children, entities) ==
    [id |-> id, start |-> start, end |-> end, control |-> control,
     strokeWidth |-> strokeWidth, length |-> length, distFromRoot |-> distFromRoot,
     children |-> children, entities |-> entities]

\* Polar projection of a segment's end point.
EndPoint(start, length, deg) ==
    Vector2(start.x + ((length * Cos(deg)) \div 1000), start.y + ((length * Sin(deg)) \div 1000))

\* The distance from the root a child is built with: forgetting the parent's length.
ChildDistStale(currentDist, length) == currentDist

\* The distance from the root a child is built with: the parent's midpoint.
ChildDistMidway(currentDist, length) == currentDist + (length \div 2)

\* The distance from the root a child is built with.
ChildDist(currentDist, length) == currentDist + length

(***************************************************************************)
(* PinkBallsTree (src/src/entities/lavendar.ts).                           *)
(***************************************************************************)
fruitDelay == 100
leafRadius == 50

\* The control point: the chord's midpoint moved along the chord's normal.
ControlPoint(start, end, length, perpFraction) ==
    LET dx == end.x - start.x
        dy == end.y - start.y
        perpLen == (perpFraction * length) \div 1000
        branchLength == Sqrt((dx * dx) + (dy * dy))
        perpX == IF branchLength # 0 THEN ((0 - dy) * perpLen) \div branchLength ELSE 0
        perpY == IF branchLength # 0 THEN (dx * perpLen) \div branchLength ELSE 0
    IN  Vector2(start.x + (dx \div 2) + perpX, start.y + (dy \div 2) + perpY)

\* Op of the value v: the statements after `const x = v`.
With(v, Op(_)) == Op(v)

\* The seed after n further calls of next().
RECURSIVE Advance(_, _)
Advance(seed, n) == IF n = 0 THEN seed ELSE Advance(next(seed), n - 1)

\* The seed after n loop bodies of `each` draws whose values are left out.
\* (The test of seed.hi is true of every seed; it has the seed of one loop
\* body computed before the next.)
RECURSIVE SkipDraws(_, _, _)
SkipDraws(seed, n, each) ==
    IF seed.hi >= 0 /\ n <= 0 THEN seed ELSE SkipDraws(Advance(seed, each), n - 1, each)

\* The leaf or fruit of one segment (the loop runs once: count = 1).  The
\* draws: t, offsetX, offsetY, isFruit, colour.
FullTreeEntities(rand, start, end, length, currentDist) ==
    LET t == nextFloat(Advance(rand, 1), 300, 950)
        attachmentPoint == Vector2(Lerp(start.x, end.x, t, 1000), Lerp(start.y, end.y, t, 1000))
        isFruit == nextInt(Advance(rand, 4), 0, 1000) >= 990
    IN  [entities |->
            <<[center |-> Vector2(attachmentPoint.x + nextFloat(Advance(rand, 2), -40, 40),
                                  attachmentPoint.y + nextFloat(Advance(rand, 3), -40, 40)),
               radius |-> leafRadius,
               type |-> IF isFruit THEN "fruit" ELSE "leaf",
               distFromRoot |-> currentDist + ((length * t) \div 1000)
                                    + (IF isFruit THEN fruitDelay ELSE 0),
               attachmentPoint |-> attachmentPoint]>>,
         rand |-> Advance(rand, 5)]

RECURSIVE generateFullTree(_, _, _, _, _, _, _)
RECURSIVE FullTreeChildren(_, _, _, _, _, _, _, _, _)

\* The loop over the children; the draws of one: angleVariation, length factor.
FullTreeChildren(rand, i, branchCount, end, length, angle, depth, currentDist, id) ==
    IF i >= branchCount THEN [children |-> <<>>, rand |-> rand]
    ELSE With(generateFullTree(Advance(rand, 2), end,
                               (length * nextFloat(Advance(rand, 2), 700, 900)) \div 1000,
                               angle + nextFloat(Advance(rand, 1), -45, 45), depth - 1,
                               ChildDist(currentDist, length), Append(id, i + 1)),
              LAMBDA child :
         With(FullTreeChildren(child.rand, i + 1, branchCount, end, length, angle, depth,
                               currentDist, id),
              LAMBDA rest :
         [children |-> <<child.b>> \o rest.children, rand |-> rest.rand]))

\* The draws of one segment: angleOffset, perpLen, strokeWidth, branchCount.
generateFullTree(rand, start, length, angle, depth, currentDist, id) ==
    With(EndPoint(start, length, angle + nextFloat(Advance(rand, 1), -20, 20)),
         LAMBDA end :
    With(IF depth > 0
         THEN FullTreeChildren(Advance(rand, 4), 0, nextInt(Advance(rand, 4), 2, 3), end,
                               length, angle, depth, currentDist, id)
         ELSE [children |-> <<>>, rand |-> Advance(rand, 3)],
         LAMBDA kids :
    With(IF depth <= 4
         THEN FullTreeEntities(kids.rand, start, end, length, currentDist)
         ELSE [entities |-> <<>>, rand |-> kids.rand],
         LAMBDA ents :
    [b |-> Branch(id, start, end, nextFloat(Advance(rand, 3), 30, 65),
                  ControlPoint(start, end, length, nextFloat(Advance(rand, 2), -200, 200)),
                  length, currentDist, kids.children, ents.entities),
     rand |-> ents.rand])))

(***************************************************************************)
(* Depth of the structures.  The programs build to depth 7 (PinkBallsTree, *)
(* Weathered, Sakura) or 8 (Cedar); the model builds to MaxDepth, and      *)
(* keeps the first MaxEntities entities of a foliage pad or blossom        *)
(* cluster (the draws of the others are made).                             *)
(***************************************************************************)
MaxDepth == 3
MaxEntities == 2

maxDepth == 7
cedarDepth == 8
BuildDepth(programDepth) == Min(programDepth, MaxDepth)

(***************************************************************************)
(* Weathered (src/src/entities/flower.ts).                                 *)
(***************************************************************************)
RECURSIVE generateWeatheredTree(_, _, _, _, _, _, _)
RECURSIVE WeatheredChildren(_, _, _, _, _, _, _, _, _)

WeatheredChildren(rand, i, branchCount, end, length, angle, depth, currentDist, id) ==
    IF i >= branchCount THEN [children |-> <<>>, rand |-> rand]
    ELSE With(generateWeatheredTree(Advance(rand, 2), end,
                                    (length * nextFloat(Advance(rand, 2), 700, 900)) \div 1000,
                                    angle + nextFloat(Advance(rand, 1), -45, 45), depth - 1,
                                    ChildDist(currentDist, length), Append(id, i + 1)),
              LAMBDA child :
         With(WeatheredChildren(child.rand, i + 1, branchCount, end, length, angle, depth,
                                currentDist, id),
              LAMBDA rest :
         [children |-> <<child.b>> \o rest.children, rand |-> rest.rand]))

generateWeatheredTree(rand, start, length, angle, depth, currentDist, id) ==
    With(EndPoint(start, length, angle + nextFloat(Advance(rand, 1), -20, 20)),
         LAMBDA end :
    With(IF depth > 0
         THEN WeatheredChildren(Advance(rand, 4), 0, nextInt(Advance(rand, 4), 2, 3), end,
                                length, angle, depth, currentDist, id)
         ELSE [children |-> <<>>, rand |-> Advance(rand, 3)],
         LAMBDA kids :
    [b |-> Branch(id, start, end, Max(2, (depth * 4) + nextFloat(Advance(rand, 3), -1, 1)),
                  ControlPoint(start, end, length, nextFloat(Advance(rand, 2), -200, 200)),
                  length, currentDist, kids.children, <<>>),
     rand |-> kids.rand]))

(***************************************************************************)
(* Cedar (src/unnamed/part_002).                                           *)
(***************************************************************************)
\* rand.next() > 0.5 on the seed next() left.
MoreThanHalf(seed) == seed.hi > 32768 \/ (seed.hi = 32768 /\ seed.lo > 0)

RECURSIVE CedarLeaves(_, _, _, _, _)

\* The foliage pad of one segment; base = currentDist + length.  The draws
\* of one leaf: rBase, gBase, bBase, centre x, centre y, radius, distance.
\* The leaves after the first MaxEntities are drawn and left out.
CedarLeaves(rand, i, leafCount, end, base) ==
    IF i >= leafCount \/ i >= MaxEntities
    THEN [entities |-> <<>>, rand |-> SkipDraws(rand, leafCount - i, 7)]
    ELSE With(CedarLeaves(Advance(rand, 7), i + 1, leafCount, end, base),
              LAMBDA rest :
         [entities |->
              <<[center |-> Vector2(end.x + nextFloat(Advance(rand, 4), -60, 60),
                                    end.y + nextFloat(Advance(rand, 5), -25, 25)),
                 radius |-> nextFloat(Advance(rand, 6), 1, 10),
                 distFromRoot |-> base + nextFloat(Advance(rand, 7), 0, 150)]>>
                  \o rest.entities,
          rand |-> rest.rand])

RECURSIVE generateCedar(_, _, _, _, _, _, _, _)
\* A side tier that is given more depth than its trunk segment has.
TierDepthRaised(depth) == depth + 2

\* The depth passed to a side tier: depth - 2.
TierDepth(depth) == depth - 2

RECURSIVE CedarTiers(_, _, _, _, _, _, _, _)

\* The side tiers of a trunk segment; the draws of one: the side, its angle.
CedarTiers(rand, i, tierCount, end, length, depth, currentDist, id) ==
    IF i >= tierCount THEN [children |-> <<>>, rand |-> rand]
    ELSE With(generateCedar(Advance(rand, 2), end, (length * 7) \div 10,
                            IF MoreThanHalf(Advance(rand, 1))
                            THEN nextFloat(Advance(rand, 2), -15, 5)
                            ELSE 175 + nextFloat(Advance(rand, 2), -5, 15),
                            TierDepth(depth), ChildDist(currentDist, length), FALSE,
                            Append(id, i + 2)),
              LAMBDA child :
         With(CedarTiers(child.rand, i + 1, tierCount, end, length, depth, currentDist, id),
              LAMBDA rest :
         [children |-> <<child.b>> \o rest.children, rand |-> rest.rand]))

\* The children of a trunk segment: the next trunk segment, then the tiers.
CedarTrunkChildren(rand, end, length, angle, depth, currentDist, id) ==
    With(generateCedar(Advance(rand, 1), end, (length * 82) \div 100,
                       angle + nextFloat(Advance(rand, 1), -6, 6), depth - 1,
                       ChildDist(currentDist, length), TRUE, Append(id, 1)),
         LAMBDA trunk :
    With(CedarTiers(Advance(trunk.rand, 1), 0, nextInt(Advance(trunk.rand, 1), 2, 4), end,
                    length, depth, currentDist, id),
         LAMBDA tiers :
    [children |-> <<trunk.b>> \o tiers.children, rand |-> tiers.rand]))

\* The child of a lateral segment.
CedarLateralChild(rand, end, length, angle, depth, currentDist, id) ==
    With(generateCedar(Advance(rand, 1), end, (length * 65) \div 100,
                       angle + nextFloat(Advance(rand, 1), -15, 15), depth - 1,
                       ChildDist(currentDist, length), FALSE, Append(id, 1)),
         LAMBDA child :
    [children |-> <<child.b>>, rand |-> child.rand])

generateCedar(rand, start, length, angle, depth, currentDist, isTrunk, id) ==
    With(EndPoint(start, length, angle),
         LAMBDA end :
    With(IF isTrunk THEN nextFloat(Advance(rand, 1), -12, 12)
         ELSE nextFloat(Advance(rand, 1), -25, 25),
         LAMBDA offset :
    With(IF depth > 0 /\ isTrunk
         THEN CedarTrunkChildren(Advance(rand, 1), end, length, angle, depth, currentDist, id)
         ELSE IF depth > 0 /\ depth > 2
         THEN CedarLateralChild(Advance(rand, 1), end, length, angle, depth, currentDist, id)
         ELSE [children |-> <<>>, rand |-> Advance(rand, 1)],
         LAMBDA kids :
    With(IF depth <= 4
         THEN CedarLeaves(Advance(kids.rand, 1), 0, nextInt(Advance(kids.rand, 1), 10, 40),
                          end, currentDist + length)
         ELSE [entities |-> <<>>, rand |-> kids.rand],
         LAMBDA pad :
    [b |-> Branch(id, start, end,
                  IF isTrunk THEN ((depth * depth * 11) \div 10) + 18 ELSE (depth * 4) + 2,
                  Vector2(((start.x + end.x) \div 2) + offset,
                          ((start.y + end.y) \div 2) + offset),
                  length, currentDist, kids.children, pad.entities),
     rand |-> pad.rand]))))

(***************************************************************************)
(* Sakura (src/src/entities/sakura.ts).  scale is the fraction             *)
(* min(width, height) / 1080.                                              *)
(***************************************************************************)
Scaled(n, scale) == (n * scale.num) \div scale.den

\* A point of the quadratic curve at t per-mille.
QuadAt(a, c, b, t) ==
    (((1000 - t) * (1000 - t) * a) + (2 * (1000 - t) * t * c) + (t * t * b)) \div 1000000

RECURSIVE SakuraBlossoms(_, _, _, _, _, _, _, _, _)

\* The blossom cluster of one segment.  The draws of one blossom: t, centre
\* x, centre y, radius, colour, rotation.  The blossoms after the first
\* MaxEntities are drawn and left out.
SakuraBlossoms(rand, i, clusterSize, start, control, end, length, dist, scale) ==
    IF i >= clusterSize \/ i >= MaxEntities
    THEN [entities |-> <<>>, rand |-> SkipDraws(rand, clusterSize - i, 6)]
    ELSE With(SakuraBlossoms(Advance(rand, 6), i + 1, clusterSize, start, control, end,
                             length, dist, scale),
              LAMBDA rest :
         With(nextFloat(Advance(rand, 1), 500, 1000),
              LAMBDA t :
         [entities |->
              <<[center |-> Vector2(
                     QuadAt(start.x, control.x, end.x, t)
                         + nextFloat(Advance(rand, 2), Scaled(-20, scale), Scaled(20, scale)),
                     QuadAt(start.y, control.y, end.y, t)
                         + nextFloat(Advance(rand, 3), Scaled(-20, scale), Scaled(20, scale))),
                 radius |-> nextFloat(Advance(rand, 4), Scaled(4, scale), Scaled(8, scale)),
                 pink |-> nextInt(Advance(rand, 5), 0, 10) >= 3,
                 distFromRoot |-> dist + ((length * t) \div 1000),
                 rotation |-> nextFloat(Advance(rand, 6), 0, 360)]>> \o rest.entities,
          rand |-> rest.rand]))

RECURSIVE generateSakura(_, _, _, _, _, _, _, _, _)
RECURSIVE SakuraChildren(_, _, _, _, _, _, _, _, _, _, _)

\* The loop over the children; the draws of one: angle, length factor.
SakuraChildren(rand, i, numChildren, end, length, angle, depth, dist, bounds, scale, id) ==
    IF i >= numChildren THEN [children |-> <<>>, rand |-> rand]
    ELSE With(generateSakura(Advance(rand, 2), end,
                             (length * nextFloat(Advance(rand, 2), 700, 850)) \div 1000,
                             angle + nextFloat(Advance(rand, 1), -35, 35), depth - 1,
                             ChildDist(dist, length), bounds, scale, Append(id, i + 1)),
              LAMBDA child :
         With(SakuraChildren(child.rand, i + 1, numChildren, end, length, angle, depth,
                             dist, bounds, scale, id),
              LAMBDA rest :
         [children |-> <<child.b>> \o rest.children, rand |-> rest.rand]))

\* The control point: the chord's midpoint moved along the normal by perp.
SakuraControl(start, end, angle, perp) ==
    Vector2(((start.x + end.x) \div 2) + ((Cos(angle + 90) * perp) \div 1000),
            ((start.y + end.y) \div 2) + ((Sin(angle + 90) * perp) \div 1000))

\* The segment once its depth is settled: the draws are perp, numChildren.
SakuraSegment(rand, start, end, length, angle, depth, dist, bounds, scale, id) ==
    With(SakuraControl(start, end, angle,
                       ((Advance(rand, 1).hi - 32768) * length * 4) \div 655360),
         LAMBDA control :
    With(IF depth > 0
         THEN SakuraChildren(Advance(rand, 2), 0,
                             IF depth = 1 THEN nextInt(Advance(rand, 2), 3, 5)
                             ELSE nextInt(Advance(rand, 2), 2, 3),
                             end, length, angle, depth, dist, bounds, scale, id)
         ELSE [children |-> <<>>, rand |-> Advance(rand, 1)],
         LAMBDA kids :
    With(IF depth < 4
         THEN SakuraBlossoms(Advance(kids.rand, 1), 0, nextInt(Advance(kids.rand, 1), 5, 12),
                             start, control, end, length, dist, scale)
         ELSE [entities |-> <<>>, rand |-> kids.rand],
         LAMBDA cluster :
    [b |-> Branch(id, start, end, Scaled((depth * 25) + 10, scale) \div 10, control,
                  length, dist, kids.children, cluster.entities),
     rand |-> cluster.rand])))

\* The builder without its bounds check: the depth is kept as given.
generateSakuraUnchecked(rand, start, length, angle, depth, dist, bounds, scale, id) ==
    SakuraSegment(rand, start, EndPoint(start, length, angle), length, angle, depth, dist,
                  bounds, scale, id)

\* A segment whose end leaves the canvas by more than the margin is a tip.
generateSakura(rand, start, length, angle, depth, dist, bounds, scale, id) ==
    With(EndPoint(start, length, angle),
         LAMBDA end :
    SakuraSegment(rand, start, end, length, angle,
                  IF \/ end.x < 0 - Scaled(50, scale)
                     \/ end.x > bounds.width + Scaled(50, scale)
                     \/ end.y < 0 - Scaled(50, scale)
                     \/ end.y > bounds.height + Scaled(50, scale)
                  THEN 0 ELSE depth,
                  dist, bounds, scale, id))

(***************************************************************************)
(* Bounds, longest path and the auto-fit transform.                        *)
(***************************************************************************)
SetMin(S) == CHOOSE x \in S : \A y \in S : x <= y
SetMax(S) == CHOOSE x \in S : \A y \in S : x >= y

RECURSIVE ExtentsX(_)
RECURSIVE ExtentsY(_)

\* The x coordinates calculateBounds folds over in the subtree of b.
ExtentsX(b) ==
    {b.start.x, b.end.x, b.control.x}
        \cup UNION {{b.entities[i].center.x - b.entities[i].radius,
                     b.entities[i].center.x + b.entities[i].radius} :
                    i \in 1..Len(b.entities)}
        \cup UNION {ExtentsX(b.children[i]) : i \in 1..Len(b.children)}

\* The y coordinates calculateBounds folds over in the subtree of b.
ExtentsY(b) ==
    {b.start.y, b.end.y, b.control.y}
        \cup UNION {{b.entities[i].center.y - b.entities[i].radius,
                     b.entities[i].center.y + b.entities[i].radius} :
                    i \in 1..Len(b.entities)}
        \cup UNION {ExtentsY(b.children[i]) : i \in 1..Len(b.children)}

calculateBounds(b) ==
    [minX |-> SetMin(ExtentsX(b)), maxX |-> SetMax(ExtentsX(b)),
     minY |-> SetMin(ExtentsY(b)), maxY |-> SetMax(ExtentsY(b))]

\* The root's own reach, the children left out.
getMaxDistOfRoot(b) == b.distFromRoot + b.length

RECURSIVE getMaxDist(_)
getMaxDist(b) ==
    SetMax({b.distFromRoot + b.length}
               \cup {getMaxDist(b.children[i]) : i \in 1..Len(b.children)})

\* The transform that centres the bounding box vertically as well.
AutoFitCentred(bounds, config) ==
    LET treeWidth == bounds.maxX - bounds.minX
        treeHeight == bounds.maxY - bounds.minY
        availW == config.width - (config.padding * 2)
        availH == config.height - (config.padding * 2)
        byWidth == availW * treeHeight <= availH * treeWidth
        finalScale == IF byWidth THEN [num |-> availW, den |-> treeWidth]
                      ELSE [num |-> availH, den |-> treeHeight]
    IN  [scale |-> finalScale, byWidth |-> byWidth,
         offsetX2 |-> (config.width * finalScale.den)
                          - (((2 * bounds.minX) + treeWidth) * finalScale.num),
         offsetY |-> ((config.height * finalScale.den)
                          - ((bounds.minY + bounds.maxY) * finalScale.num)) \div 2]

\* Math.max in place of Math.min: the looser of the two scales.
AutoFitLoose(bounds, config) ==
    LET treeWidth == bounds.maxX - bounds.minX
        treeHeight == bounds.maxY - bounds.minY
        availW == config.width - (config.padding * 2)
        availH == config.height - (config.padding * 2)
        byWidth == availW * treeHeight >= availH * treeWidth
        finalScale == IF byWidth THEN [num |-> availW, den |-> treeWidth]
                      ELSE [num |-> availH, den |-> treeHeight]
    IN  [scale |-> finalScale, byWidth |-> byWidth,
         offsetX2 |-> (config.width * finalScale.den)
                          - (((2 * bounds.minX) + treeWidth) * finalScale.num),
         offsetY |-> ((config.height - config.padding) * finalScale.den)
                          - (bounds.maxY * finalScale.num)]

\* The auto-fit transform of a bounding box of positive width and height:
\* finalScale = min(availW / treeWidth, availH / treeHeight) as a fraction,
\* offsetX as a numerator over 2 * finalScale.den and offsetY as a numerator
\* over finalScale.den.  byWidth tells which axis gave the scale.
AutoFit(bounds, config) ==
    LET treeWidth == bounds.maxX - bounds.minX
        treeHeight == bounds.maxY - bounds.minY
        availW == config.width - (config.padding * 2)
        availH == config.height - (config.padding * 2)
        byWidth == availW * treeHeight <= availH * treeWidth
        finalScale == IF byWidth THEN [num |-> availW, den |-> treeWidth]
                      ELSE [num |-> availH, den |-> treeHeight]
    IN  [scale |-> finalScale, byWidth |-> byWidth,
         offsetX2 |-> (config.width * finalScale.den)
                          - (((2 * bounds.minX) + treeWidth) * finalScale.num),
         offsetY |-> ((config.height - config.padding) * finalScale.den)
                          - (bounds.maxY * finalScale.num)]

\* Sakura draws the structure where it was built.
NoTransform == [scale |-> [num |-> 1, den |-> 1], byWidth |-> FALSE, offsetX2 |-> 0, offsetY |-> 0]

\* x * scale + offsetX and y * scale + offsetY, as numerators over 2 * scale.den.
TransformX(t, x) == (2 * x * t.scale.num) + t.offsetX2
TransformY(t, y) == 2 * ((y * t.scale.num) + t.offsetY)

\* The transformed point, in whole pixels.
Transformed(t, v) ==
    Vector2(TransformX(t, v.x) \div (2 * t.scale.den), TransformY(t, v.y) \div (2 * t.scale.den))

(***************************************************************************)
(* Growth projection.  A projector returns the two lists it filled:        *)
(* branchList in the order the segments were pushed, entityList likewise.  *)
(* A list element carries, beside the fields the program gives it, the     *)
(* identity of the segment or entity it shows (of), the fraction revealed  *)
(* (localT) and the eased size factor (factor), both as exact fractions.   *)
(***************************************************************************)
growSpeed == 150
cedarGrowSpeed == 200
blossomDelay == 50

\* t as per-mille, rounded down (t.den is a multiple of 1000 or small).
PerMille(t) == IF t.den >= 1000 THEN t.num \div (t.den \div 1000) ELSE (t.num * 1000) \div t.den

\* a / b > c / d for positive b and d.
FracGreater(a, b, c, d) == a * d > c * b

\* The tip of the revealed part of a curve, by De Casteljau at t = n / d.
CurrentControl(ts, tc, n, d) == Vector2(Lerp(ts.x, tc.x, n, d), Lerp(ts.y, tc.y, n, d))
CurrentEnd(ts, tc, te, n, d) ==
    Vector2((((d - n) * (d - n) * ts.x) + (2 * n * (d - n) * tc.x) + (n * n * te.x)) \div (d * d),
            (((d - n) * (d - n) * ts.y) + (2 * n * (d - n) * tc.y) + (n * n * te.y)) \div (d * d))

\* The entities of segment b the organic projector pushes.
OrganicEntities(b, progressDistance, t) ==
    LET shown(i) ==
            LET entity == b.entities[i]
                growthP == CoerceUnit(progressDistance - entity.distFromRoot, growSpeed)
                radiusScale == smoothStep(growthP)
            IN  IF progressDistance > entity.distFromRoot
                       /\ FracGreater(radiusScale.num, radiusScale.den, 1, 100)
                THEN <<[of |-> <<b.id, i>>, type |-> entity.type,
                        distFromRoot |-> entity.distFromRoot,
                        center |-> Transformed(t, entity.center),
                        radius |-> (entity.radius * t.scale.num * PerMille(radiusScale))
                                       \div (t.scale.den * 1000),
                        factor |-> radiusScale, opacity |-> 1000]>>
                ELSE <<>>
        RECURSIVE from(_)
        from(i) == IF i > Len(b.entities) THEN <<>> ELSE shown(i) \o from(i + 1)
    IN  from(1)

RECURSIVE flattenTreeOrganic(_, _, _)
RECURSIVE OrganicChildren(_, _, _, _)

OrganicChildren(b, i, progressDistance, t) ==
    IF i > Len(b.children) THEN [branchList |-> <<>>, entityList |-> <<>>]
    ELSE LET child == flattenTreeOrganic(b.children[i], progressDistance, t)
             rest == OrganicChildren(b, i + 1, progressDistance, t)
         IN  [branchList |-> child.branchList \o rest.branchList,
              entityList |-> child.entityList \o rest.entityList]

\* flattenTreeOrganic of PinkBallsTree and Weathered.
flattenTreeOrganic(b, progressDistance, t) ==
    LET tStart == Transformed(t, b.start)
        tEnd == Transformed(t, b.end)
        tControl == Transformed(t, b.control)
        startDist == b.distFromRoot
        localT == CoerceUnit(progressDistance - startDist, b.length)
        grown == progressDistance > startDist /\ localT.num > 0
        own == IF grown
               THEN <<[of |-> b.id, start |-> tStart,
                       end |-> CurrentEnd(tStart, tControl, tEnd, localT.num, localT.den),
                       strokeWidth |-> (b.strokeWidth * t.scale.num * localT.num)
                                           \div (t.scale.den * localT.den),
                       control |-> CurrentControl(tStart, tControl, localT.num, localT.den),
                       localT |-> localT]>>
               ELSE <<>>
        ents == IF grown THEN OrganicEntities(b, progressDistance, t) ELSE <<>>
        kids == OrganicChildren(b, 1, progressDistance, t)
    IN  [branchList |-> own \o kids.branchList, entityList |-> ents \o kids.entityList]

\* The entities of segment b Cedar's projector pushes.
CedarEntities(b, progress, t) ==
    LET shown(i) ==
            LET e == b.entities[i]
                g == CoerceUnit(progress - e.distFromRoot, cedarGrowSpeed)
            IN  IF progress > e.distFromRoot
                THEN <<[of |-> <<b.id, i>>, distFromRoot |-> e.distFromRoot,
                        center |-> Transformed(t, e.center),
                        radius |-> (e.radius * t.scale.num * PerMille(smoothStep(g)))
                                       \div (t.scale.den * 1000),
                        factor |-> smoothStep(g), opacity |-> PerMille(g)]>>
                ELSE <<>>
        RECURSIVE from(_)
        from(i) == IF i > Len(b.entities) THEN <<>> ELSE shown(i) \o from(i + 1)
    IN  from(1)

RECURSIVE flattenTree(_, _, _)
RECURSIVE FlattenChildren(_, _, _, _)

FlattenChildren(b, i, progress, t) ==
    IF i > Len(b.children) THEN [branchList |-> <<>>, entityList |-> <<>>]
    ELSE LET child == flattenTree(b.children[i], progress, t)
             rest == FlattenChildren(b, i + 1, progress, t)
         IN  [branchList |-> child.branchList \o rest.branchList,
              entityList |-> child.entityList \o rest.entityList]

\* flattenTree of Cedar.
flattenTree(b, progress, t) ==
    LET ts == Transformed(t, b.start)
        te == Transformed(t, b.end)
        tc == Transformed(t, b.control)
        localT == CoerceUnit(progress - b.distFromRoot, b.length)
        grown == progress > b.distFromRoot
        own == IF grown
               THEN <<[of |-> b.id, start |-> ts,
                       end |-> CurrentEnd(ts, tc, te, localT.num, localT.den),
                       strokeWidth |-> (b.strokeWidth * t.scale.num) \div t.scale.den,
                       control |-> CurrentControl(ts, tc, localT.num, localT.den),
                       localT |-> localT]>>
               ELSE <<>>
        ents == IF grown THEN CedarEntities(b, progress, t) ELSE <<>>
        kids == FlattenChildren(b, 1, progress, t)
    IN  [branchList |-> own \o kids.branchList, entityList |-> ents \o kids.entityList]

\* The blossoms of segment b Sakura's frame draws.
SakuraEntities(b, currentGrowthDist, scale) ==
    LET shown(i) ==
            LET e == b.entities[i]
            IN  IF currentGrowthDist > e.distFromRoot + Scaled(blossomDelay, scale)
                THEN <<[of |-> <<b.id, i>>, distFromRoot |-> e.distFromRoot,
                        center |-> e.center, radius |-> e.radius,
                        factor |-> [num |-> 1, den |-> 1], rotation |-> e.rotation]>>
                ELSE <<>>
        RECURSIVE from(_)
        from(i) == IF i > Len(b.entities) THEN <<>> ELSE shown(i) \o from(i + 1)
    IN  from(1)

RECURSIVE renderBranch(_, _, _)
RECURSIVE RenderChildren(_, _, _, _)

RenderChildren(b, i, currentGrowthDist, scale) ==
    IF i > Len(b.children) THEN [branchList |-> <<>>, entityList |-> <<>>]
    ELSE LET child == renderBranch(b.children[i], currentGrowthDist, scale)
             rest == RenderChildren(b, i + 1, currentGrowthDist, scale)
         IN  [branchList |-> child.branchList \o rest.branchList,
              entityList |-> child.entityList \o rest.entityList]

\* renderBranch of Sakura's frame: the curves stroked and the blossoms
\* filled, in drawing order.
renderBranch(b, currentGrowthDist, scale) ==
    IF currentGrowthDist < b.distFromRoot
    THEN [branchList |-> <<>>, entityList |-> <<>>]
    ELSE LET progress == [num |-> Min(b.length, currentGrowthDist - b.distFromRoot),
                          den |-> b.length]
             own == <<[of |-> b.id, start |-> b.start,
                       end |-> Vector2(Lerp(b.start.x, b.end.x, progress.num, progress.den),
                                       Lerp(b.start.y, b.end.y, progress.num, progress.den)),
                       strokeWidth |-> b.strokeWidth,
                       control |-> CurrentControl(b.start, b.control, progress.num,
                                                  progress.den),
                       localT |-> progress]>>
             ents == IF FracGreater(progress.num, progress.den, 8, 10)
                     THEN SakuraEntities(b, currentGrowthDist, scale)
                     ELSE <<>>
             kids == RenderChildren(b, 1, currentGrowthDist, scale)
         IN  [branchList |-> own \o kids.branchList, entityList |-> ents \o kids.entityList]

(***************************************************************************)
(* Instances of SeededRandom on the heap.  Each instance owns its seed     *)
(* field; a call acts on the instance it is made on.                       *)
(***************************************************************************)
Instances == {1, 2, 3}

NoInstance == [made |-> FALSE, seedString |-> "", seed |-> [wide |-> FALSE, digits |-> <<>>, hi |-> 0, lo |-> 0], out |-> <<>>]

Returned(seed) == <<seed.hi, seed.lo>>

\* The constructor's result for each seed string of the model.
Constructed == [s \in Seeds |-> SeededRandom(s)]

\* new SeededRandom(seedString), stored as instance i.
Construct(heap, i, seedString) ==
    [heap EXCEPT ![i] = [made |-> TRUE, seedString |-> seedString,
                         seed |-> Constructed[seedString], out |-> <<>>]]

\* A seed field declared static: every instance sees the last write.
CallNextStatic(heap, i, op, val) ==
    LET s == next(heap[i].seed)
    IN  [j \in DOMAIN heap |->
            IF j = i
            THEN [heap[j] EXCEPT !.seed = s,
                       !.out = Append(@, [op |-> op, raw |-> Returned(s), val |-> val])]
            ELSE [heap[j] EXCEPT !.seed = s]]

\* The heap after instance i ran next() inside method op, which returned val.
CallNext(heap, i, op, val) ==
    LET s == next(heap[i].seed)
    IN  [heap EXCEPT ![i].seed = s,
                     ![i].out = Append(@, [op |-> op, raw |-> Returned(s), val |-> val])]

RngInit ==
    /\ rngs = [i \in Instances |-> NoInstance]
    /\ runs = <<>>
    /\ enc = <<>>
    /\ loop = <<>>

RngNew(i) ==
    /\ ~rngs[i].made
    /\ \E s \in Seeds : rngs' = Construct(rngs, i, s)
    /\ UNCHANGED <<runs, enc, loop>>

RECURSIVE SumOver(_, _)
SumOver(f, S) ==
    IF S = {} THEN 0 ELSE LET x == CHOOSE y \in S : TRUE IN f[x] + SumOver(f, S \ {x})

Draws == SumOver([i \in Instances |-> Len(rngs[i].out)], Instances)

CanDraw(i) == rngs[i].made /\ Draws < MaxDraws

RngNext(i) ==
    /\ CanDraw(i)
    /\ rngs' = CallNext(rngs, i, "next", Returned(next(rngs[i].seed)))
    /\ UNCHANGED <<runs, enc, loop>>

RngNextFloat(i) ==
    /\ CanDraw(i)
    /\ rngs' = CallNext(rngs, i, "nextFloat", nextFloat(next(rngs[i].seed), -2000, 2000))
    /\ UNCHANGED <<runs, enc, loop>>

\* The arguments of the nextFloat calls made in doubles: (0, 1), (200, 1000)
\* and (2^52, 2^52 + 1).
DoubleRanges ==
    { [op |-> "nextFloat(0, 1)", min |-> <<>>, span |-> 1],
      [op |-> "nextFloat(200, 1000)", min |-> <<200>>, span |-> 800],
      [op |-> "nextFloat(2^52, 2^52 + 1)", min |-> <<0, 0, 0, 0, 0, 4>>, span |-> 1] }

RngNextFloatDouble(i) ==
    /\ CanDraw(i)
    /\ \E range \in DoubleRanges :
           rngs' = CallNext(rngs, i, range.op,
                            [min |-> range.min, span |-> range.span,
                             value |-> NextFloatDouble(next(rngs[i].seed), range.min,
                                                       range.span)])
    /\ UNCHANGED <<runs, enc, loop>>

RngNextInt(i) ==
    /\ CanDraw(i)
    /\ rngs' = CallNext(rngs, i, "nextInt", nextInt(next(rngs[i].seed), 2, 4))
    /\ UNCHANGED <<runs, enc, loop>>

RngStep ==
    \E i \in Instances : RngNew(i) \/ RngNext(i) \/ RngNextFloat(i) \/ RngNextInt(i)

SpecRng == RngInit /\ [][RngStep]_vars

\* C1: two instances constructed from the same seed string return the same
\* next() values call for call, and the same nextFloat/nextInt result where
\* the same method is called, however the calls on them and on other
\* instances interleave.
C1_SameSeedSameSequence ==
    \A i, j \in Instances :
        (rngs[i].made /\ rngs[j].made /\ rngs[i].seedString = rngs[j].seedString) =>
            \A k \in 1..Min(Len(rngs[i].out), Len(rngs[j].out)) :
                /\ rngs[i].out[k].raw = rngs[j].out[k].raw
                /\ rngs[i].out[k].op = rngs[j].out[k].op
                       => rngs[i].out[k].val = rngs[j].out[k].val

\* Two instances of one seed, advanced to different lengths, with a third
\* instance of another seed advanced in between.
C1_Witness ==
    \E i, j, o \in Instances :
        /\ i # j /\ rngs[i].made /\ rngs[j].made /\ rngs[o].made
        /\ rngs[i].seedString = rngs[j].seedString
        /\ rngs[o].seedString # rngs[i].seedString
        /\ Len(rngs[i].out) >= 2 /\ Len(rngs[j].out) = 1 /\ Len(rngs[o].out) >= 1
        /\ rngs[i].out[1].raw # rngs[o].out[1].raw

(***************************************************************************)
(* Growing.  Two runs of one generator (species) on one seed, each on a    *)
(* canvas: a run builds its structure with a generator of its own,         *)
(* measures it, fits it to the canvas, and then projects it at progress    *)
(* distances, keeping each snapshot.                                       *)
(***************************************************************************)
RunIds == {1, 2}
MaxFlattens == 2

Species == {"pinkballs", "weathered", "cedar", "sakura"}
Organic == {"pinkballs", "weathered"}

Configs ==
    {[width |-> 1080, height |-> 1080, padding |-> 100],
     [width |-> 400, height |-> 1080, padding |-> 50]}

NewRun(species, seedString, config) ==
    [phase |-> "new", species |-> species, seedString |-> seedString, config |-> config,
     tree |-> <<>>, rand |-> <<>>, bounds |-> <<>>, transform |-> <<>>,
     maxDistance |-> 0, snaps |-> <<>>]

\* One module-level generator shared by the runs: a run continues where the
\* run before it stopped.
SharedRandom(seedString) ==
    IF \E r \in RunIds : runs[r].phase = "built"
    THEN runs[CHOOSE r \in RunIds : runs[r].phase = "built"].rand
    ELSE Constructed[seedString]

\* const rand = new SeededRandom(CONFIG.seed)
NewRandom(seedString) == Constructed[seedString]

\* min(width, height) / 1080
SakuraScale(config) == [num |-> Min(config.width, config.height), den |-> 1080]

\* The structure builder of a species, called as generate() calls it.
BuildTree(species, rand, config) ==
    CASE species = "pinkballs" ->
             generateFullTree(rand, Vector2(0, 0), 200, -90, BuildDepth(maxDepth), 0, <<>>)
      [] species = "weathered" ->
             generateWeatheredTree(rand, Vector2(0, 0), 200, -90, BuildDepth(maxDepth), 0, <<>>)
      [] species = "cedar" ->
             generateCedar(rand, Vector2(0, 0), 220, -90, BuildDepth(cedarDepth), 0, TRUE, <<>>)
      [] species = "sakura" ->
             generateSakura(rand,
                            Vector2(config.width \div 2,
                                    config.height - Scaled(100, SakuraScale(config))),
                            Scaled(180, SakuraScale(config)), -90, BuildDepth(maxDepth), 0,
                            [width |-> config.width, height |-> config.height],
                            SakuraScale(config), <<>>)

\* The distance the growth animation is scaled to.
MaxDistance(species, tree, config) ==
    CASE species \in Organic -> getMaxDist(tree)
      [] species = "cedar" -> 3500
      [] species = "sakura" -> Scaled(1500, SakuraScale(config))

\* The finished picture taken at the distance the animation is scaled to,
\* with no margin for what grows after it.
FinalProgressUnpadded(run) == run.maxDistance

\* The progress distance of the finished picture (photoOnly).
FinalProgress(run) ==
    CASE run.species \in Organic -> run.maxDistance + 700
      [] run.species = "cedar" -> 3500
      [] run.species = "sakura" -> (run.maxDistance * 12) \div 10

\* A generator that keeps the fitted transform in a field of the registered
\* instance: a call that finds the field set by another call uses it.
GenerateOnInstance(run) ==
    With(BuildTree(run.species, NewRandom(run.seedString), run.config),
         LAMBDA built :
    With(calculateBounds(built.b),
         LAMBDA bounds :
    [run EXCEPT !.phase = "built", !.tree = built.b, !.rand = built.rand,
                !.bounds = bounds,
                !.transform = IF \E o \in RunIds : runs[o].phase = "built"
                              THEN runs[CHOOSE o \in RunIds : runs[o].phase = "built"].transform
                              ELSE IF run.species = "sakura" THEN NoTransform
                              ELSE AutoFit(bounds, run.config),
                !.maxDistance = MaxDistance(run.species, built.b, run.config)]))

\* generate() up to the first frame: build, measure, fit.
Generate(run) ==
    With(BuildTree(run.species, NewRandom(run.seedString), run.config),
         LAMBDA built :
    With(calculateBounds(built.b),
         LAMBDA bounds :
    [run EXCEPT !.phase = "built", !.tree = built.b, !.rand = built.rand,
                !.bounds = bounds,
                !.transform = IF run.species = "sakura" THEN NoTransform
                              ELSE AutoFit(bounds, run.config),
                !.maxDistance = MaxDistance(run.species, built.b, run.config)]))

\* The lists one frame at progress distance p is drawn from.
Snapshot(run, p) ==
    With(CASE run.species \in Organic -> flattenTreeOrganic(run.tree, p, run.transform)
           [] run.species = "cedar" -> flattenTree(run.tree, p, run.transform)
           [] run.species = "sakura" -> renderBranch(run.tree, p, SakuraScale(run.config)),
         LAMBDA lists :
    [p |-> p, branchList |-> lists.branchList, entityList |-> lists.entityList])

\* A projector that writes the transformed centre and radius back into the
\* entity it was given, and moves the segment's start with it.
RECURSIVE Moved(_, _)
Moved(b, t) ==
    [b EXCEPT !.start = Transformed(t, b.start),
              !.entities = [i \in 1..Len(b.entities) |->
                               [b.entities[i] EXCEPT !.center = Transformed(t, @)]],
              !.children = [i \in 1..Len(b.children) |-> Moved(b.children[i], t)]]

ProjectInPlace(run, p) ==
    [run EXCEPT !.snaps = Append(@, Snapshot(run, p)), !.tree = Moved(run.tree, run.transform)]

\* The run after one projection at p: the structure is read, the snapshot is
\* two fresh lists.
Project(run, p) ==
    [run EXCEPT !.snaps = Append(@, Snapshot(run, p))]

ProgressValues(run) ==
    {0, 100, 300, FinalProgress(run)}
        \cup (IF run.species \in Organic THEN {run.maxDistance + growSpeed} ELSE {})

Flattens == SumOver([r \in RunIds |-> Len(runs[r].snaps)], RunIds)

GrowInit ==
    /\ \E species \in Species, seedString \in Seeds, configs \in [RunIds -> Configs] :
           runs = [r \in RunIds |-> NewRun(species, seedString, configs[r])]
    /\ rngs = <<>>
    /\ enc = <<>>
    /\ loop = <<>>

Build(r) ==
    /\ runs[r].phase = "new"
    /\ runs' = [runs EXCEPT ![r] = Generate(@)]
    /\ UNCHANGED <<rngs, enc, loop>>

Flatten(r) ==
    /\ runs[r].phase = "built"
    /\ Flattens < MaxFlattens
    /\ \E p \in ProgressValues(runs[r]) : runs' = [runs EXCEPT ![r] = Project(@, p)]
    /\ UNCHANGED <<rngs, enc, loop>>

GrowStep == \E r \in RunIds : Build(r) \/ Flatten(r)

SpecGrow == GrowInit /\ [][GrowStep]_vars

Built(r) == runs[r].phase = "built"

\* The segments of the subtree of b.
RECURSIVE Segments(_)
Segments(b) == {b} \cup UNION {Segments(b.children[i]) : i \in 1..Len(b.children)}

RECURSIVE Preorder(_)
RECURSIVE PreorderFrom(_, _)
PreorderFrom(b, i) ==
    IF i > Len(b.children) THEN <<>> ELSE Preorder(b.children[i]) \o PreorderFrom(b, i + 1)
Preorder(b) == <<b>> \o PreorderFrom(b, 1)

\* a <= b for two fractions.
FracLeq(a, b) ==
    IF a.den = b.den THEN a.num <= b.num ELSE a.num * b.den <= b.num * a.den

IsOne(t) == t.num = t.den

\* Every element of list a has its counterpart in list b, no smaller there.
Covers(a, b, Size(_)) ==
    \A k \in 1..Len(a) : \E m \in 1..Len(b) :
        b[m].of = a[k].of /\ FracLeq(Size(a[k]), Size(b[m]))

\* C4: for p1 < p2 every segment and entity of the snapshot at p1 is in the
\* snapshot at p2, the segment's localT and the entity's eased size factor
\* no smaller than at p1.
C4_GrowthMonotone ==
    \A r \in RunIds : \A i, j \in 1..Len(runs[r].snaps) :
        runs[r].snaps[i].p < runs[r].snaps[j].p =>
            /\ Covers(runs[r].snaps[i].branchList, runs[r].snaps[j].branchList,
                      LAMBDA x : x.localT)
            /\ Covers(runs[r].snaps[i].entityList, runs[r].snaps[j].entityList,
                      LAMBDA x : x.factor)

\* Two snapshots of one structure: a segment part revealed in the first and
\* further in the second, a segment only in the second, an entity part
\* grown in the first and larger in the second.
C4_Witness ==
    \E r \in RunIds :
        /\ Len(runs[r].snaps) = 2
        /\ runs[r].snaps[1].p < runs[r].snaps[2].p
        /\ LET a == runs[r].snaps[1]
               b == runs[r].snaps[2]
           IN  /\ \E k \in 1..Len(a.branchList), m \in 1..Len(b.branchList) :
                      /\ a.branchList[k].of = b.branchList[m].of
                      /\ a.branchList[k].localT.num > 0
                      /\ a.branchList[k].localT.num < b.branchList[m].localT.num
               /\ Len(b.branchList) > Len(a.branchList)
               /\ \E k \in 1..Len(a.entityList), m \in 1..Len(b.entityList) :
                      /\ a.entityList[k].of = b.entityList[m].of
                      /\ a.entityList[k].factor.num < b.entityList[m].factor.num

\* C5: a projection leaves every field of every Branch and Entity of the
\* structure as it was, and two projections of one structure at the same
\* progress distance and transform give equal lists.
C5_FlattenReadsOnly ==
    [][\A r \in RunIds :
          Built(r) =>
              /\ runs'[r].tree = runs[r].tree
              /\ \A i, j \in 1..Len(runs'[r].snaps) :
                     runs'[r].snaps[i].p = runs'[r].snaps[j].p
                         => runs'[r].snaps[i] = runs'[r].snaps[j]]_vars

\* A Cedar projected twice at one progress distance, segments and entities
\* in both snapshots.
C5_Witness ==
    \E r \in RunIds :
        /\ runs[r].species = "cedar"
        /\ Len(runs[r].snaps) = 2
        /\ runs[r].snaps[1].p = runs[r].snaps[2].p
        /\ Len(runs[r].snaps[2].branchList) >= 2
        /\ Len(runs[r].snaps[2].entityList) >= 1

\* C6: every child segment's distFromRoot is greater than its parent's.
C6_ChildFartherThanParent ==
    \A r \in RunIds :
        Built(r) =>
            \A k \in 1..Len(Preorder(runs[r].tree)) :
                LET b == Preorder(runs[r].tree)[k]
                IN  \A i \in 1..Len(b.children) :
                        b.children[i].distFromRoot > b.distFromRoot

\* A Cedar with a side tier on the second trunk segment.
C6_Witness ==
    \E r \in RunIds :
        /\ Built(r) /\ runs[r].species = "cedar"
        /\ \E k \in 1..Len(Preorder(runs[r].tree)) :
               /\ Preorder(runs[r].tree)[k].id = <<1, 2>>
               /\ Preorder(runs[r].tree)[k].distFromRoot > runs[r].tree.length

\* C7: the projection at progress distance 0 is empty: no segment and no
\* entity is emitted or drawn.
C7_EmptyAtZero ==
    \A r \in RunIds : \A i \in 1..Len(runs[r].snaps) :
        runs[r].snaps[i].p = 0 =>
            /\ runs[r].snaps[i].branchList = <<>>
            /\ runs[r].snaps[i].entityList = <<>>

\* Segment b is in the snapshot, fully revealed.
SegmentFull(snap, b) ==
    \E m \in 1..Len(snap.branchList) :
        snap.branchList[m].of = b.id /\ IsOne(snap.branchList[m].localT)

\* Entity i of segment b is in the snapshot at its full size.
EntityFull(snap, b, i) ==
    \E m \in 1..Len(snap.entityList) :
        snap.entityList[m].of = <<b.id, i>> /\ IsOne(snap.entityList[m].factor)

\* The claim of the organic projector at the progress distances from `from`
\* on: every segment fully revealed, and every entity the test Late spares
\* at its full size.
GrownFrom(r, from, Late(_)) ==
    \A s \in 1..Len(runs[r].snaps) :
        runs[r].snaps[s].p >= from =>
            \A k \in 1..Len(Preorder(runs[r].tree)) :
                LET b == Preorder(runs[r].tree)[k]
                IN  /\ SegmentFull(runs[r].snaps[s], b)
                    /\ \A i \in 1..Len(b.entities) :
                           ~Late(b.entities[i]) => EntityFull(runs[r].snaps[s], b, i)

-----------------------------------------------------------------------------
\* Streaming: the frame loops that write PNG frames to the encoder's stdin.
\* enc is the encoder's stdin as the loops see it: the chunks written and not
\* yet taken by the pipe, the stream's needDrain flag, whether end() was
\* called, whether the process closed and with which exit code (-1 while it
\* runs), and the log of what happened on the stream.  loop is the position
\* of the frame loop: running, waiting (for 'drain'), closing (waiting for
\* 'close'), returned (resolved), rejected, or crashed (an 'error' event
\* nobody listens to).

MaxFrames == 3
MaxFrameSize == 2
HighWaterMark == 2

\* The frame loops: `inclusive` for a loop that runs while f <= totalFrames,
\* `waits` for one that awaits 'drain' after a write that returned false,
\* `awaitsClose` for one that awaits the encoder's 'close' after end().
Loops ==
    { [kind |-> "LavenderGrower.generateVideo", inclusive |-> TRUE,  waits |-> TRUE,  awaitsClose |-> TRUE],
      [kind |-> "PinkBallsTree.generate",       inclusive |-> FALSE, waits |-> TRUE,  awaitsClose |-> FALSE],
      [kind |-> "Sakura.generate",              inclusive |-> FALSE, waits |-> TRUE,  awaitsClose |-> TRUE],
      [kind |-> "Cedar.generate",               inclusive |-> TRUE,  waits |-> TRUE,  awaitsClose |-> FALSE],
      [kind |-> "run",                          inclusive |-> TRUE,  waits |-> FALSE, awaitsClose |-> FALSE] }

\* The loop's test: there is a frame f still to render.
MoreFrames(l) ==
    IF l.shape.inclusive THEN l.f <= l.totalFrames ELSE l.f < l.totalFrames

\* The number of frames the loop writes in all.
FrameCount(l) ==
    IF l.shape.inclusive THEN l.totalFrames + 1 ELSE l.totalFrames

RECURSIVE Buffered(_)
Buffered(chunks) ==
    IF chunks = <<>> THEN 0 ELSE Head(chunks).size + Buffered(Tail(chunks))

\* A loop that ends the stream with its wait for 'drain' still pending.
CanEndUnawaited(l) ==
    l.pc \in {"running", "waiting"} /\ ~MoreFrames(l)

\* The statement after the loop is reached: the loop is running, not
\* suspended in its await, and its test has failed.
CanEnd(l) ==
    l.pc = "running" /\ ~MoreFrames(l)

StreamInit ==
    /\ rngs = <<>>
    /\ runs = <<>>
    /\ \E shape \in Loops, fps \in 0..MaxFrames, durationSeconds \in 0..MaxFrames :
           /\ fps * durationSeconds <= MaxFrames
           /\ loop = [shape |-> shape, fps |-> fps, durationSeconds |-> durationSeconds,
                      totalFrames |-> fps * durationSeconds, f |-> 0, pc |-> "running"]
    /\ enc = [chunks |-> <<>>, needDrain |-> FALSE, ended |-> FALSE,
              closed |-> FALSE, code |-> -1, log |-> <<>>]

\* One pass of the loop body: render frame f, write it, and await 'drain'
\* when the write returned false (where the loop has the await).
WriteFrame ==
    /\ loop.pc = "running"
    /\ MoreFrames(loop)
    /\ \E size \in 1..MaxFrameSize :
           LET ok == Buffered(enc.chunks) + size < HighWaterMark
               suspend == loop.shape.waits /\ ~ok
           IN  /\ enc' = [enc EXCEPT
                       !.chunks = Append(@, [frame |-> loop.f, size |-> size]),
                       !.needDrain = @ \/ ~ok,
                       !.log = IF suspend
                               THEN @ \o << <<"write", loop.f, ok>>, <<"await", loop.f>> >>
                               ELSE Append(@, <<"write", loop.f, ok>>)]
               /\ loop' = [loop EXCEPT !.f = @ + 1,
                                       !.pc = IF suspend THEN "waiting" ELSE "running"]
    /\ UNCHANGED <<rngs, runs>>

\* The statements after the loop: stdin.end(), then the wait for 'close' or
\* the return.
EndStream ==
    /\ CanEnd(loop)
    /\ enc' = [enc EXCEPT !.ended = TRUE, !.log = Append(@, <<"end">>)]
    /\ loop' = [loop EXCEPT !.pc = IF loop.shape.awaitsClose THEN "closing" ELSE "returned"]
    /\ UNCHANGED <<rngs, runs>>

\* The pipe takes the oldest chunk.
Consume ==
    /\ enc.chunks # <<>>
    /\ enc' = [enc EXCEPT !.chunks = Tail(@)]
    /\ UNCHANGED <<rngs, runs, loop>>

\* 'drain' fires once the loop has yielded, with the buffer empty, the
\* flag set and the stream neither ended nor destroyed; it resumes a loop
\* that awaits it.
Drain ==
    /\ loop.pc # "running"
    /\ enc.needDrain /\ enc.chunks = <<>> /\ ~enc.ended /\ ~enc.closed
    /\ enc' = [enc EXCEPT !.needDrain = FALSE, !.log = Append(@, <<"drain">>)]
    /\ loop' = [loop EXCEPT !.pc = IF @ = "waiting" THEN "running" ELSE @]
    /\ UNCHANGED <<rngs, runs>>

\* The encoder has read everything after end() and exits with code 0:
\* 'close'.
Close ==
    /\ enc.ended /\ enc.chunks = <<>> /\ ~enc.closed
    /\ enc' = [enc EXCEPT !.closed = TRUE, !.code = 0]
    /\ loop' = [loop EXCEPT !.pc = IF @ = "closing" THEN "returned" ELSE @]
    /\ UNCHANGED <<rngs, runs>>

\* Where the encoder's failure leaves the loop.  The loops that wait for
\* 'close' listen for the exit code and for 'error' and reject.  A loop that
\* waits for 'drain' has no listener for either: it goes on waiting when the
\* exit destroys stdin first, and the process dies of the unhandled 'error'
\* when the pending write fails first.  A call that has returned stays
\* resolved.
AfterFailure(l) ==
    CASE l.pc = "closing" -> {"rejected"}
      [] l.pc = "waiting" -> {"waiting", "crashed"}
      [] OTHER -> {l.pc}

\* The encoder exits with a non-zero code, or fails to spawn, which the
\* program sees once the loop has yielded: stdin is destroyed with what it
\* still held.
Fail ==
    /\ ~enc.closed
    /\ loop.pc # "running"
    /\ enc' = [enc EXCEPT !.closed = TRUE, !.code = 1, !.chunks = <<>>,
                          !.log = Append(@, <<"gone">>)]
    /\ \E pc \in AfterFailure(loop) : loop' = [loop EXCEPT !.pc = pc]
    /\ UNCHANGED <<rngs, runs>>

StreamStep ==
    \/ WriteFrame
    \/ EndStream
    \/ Consume
    \/ Drain
    \/ Close
    \/ Fail

SpecStream == StreamInit /\ [][StreamStep]_vars

\* The same program under the scheduling the runtime gives it: a loop that
\* can run its next statement runs it, the pipe takes what is buffered while
\* the encoder lives, 'drain' is delivered once its conditions hold, and an
\* encoder that has read all of an ended input exits.  Nothing obliges the
\* encoder to fail.
SpecStreamFair ==
    /\ StreamInit
    /\ [][StreamStep]_vars
    /\ WF_vars(WriteFrame)
    /\ WF_vars(EndStream)
    /\ WF_vars(Consume)
    /\ WF_vars(Drain)
    /\ WF_vars(Close)

\* The positions in the log of the entries of one kind.
Entries(kind) ==
    {i \in 1..Len(enc.log) : enc.log[i][1] = kind}

\* C9: after a frame write that returned false no further frame is written
\* until 'drain' has fired, in every frame loop.
C9_BackpressureHonoured ==
    \A i \in Entries("write") : \A j \in Entries("write") :
        (i < j /\ ~enc.log[i][3]) => \E k \in Entries("drain") : i < k /\ k < j

C11_WritesFpsTimesDuration ==
    (enc.ended /\ loop.shape.kind # "run" /\ loop.fps > 0 /\ loop.durationSeconds > 0) =>
        Cardinality(Entries("write")) = loop.fps * loop.durationSeconds

\* C12: generate() resolves only after the encoder has closed with exit
\* code 0; an encoder that exits with another code or fails to spawn makes
\* it reject.
C12_ResolvesOnlyAfterCleanExit ==
    (loop.pc = "returned" /\ loop.shape.kind # "run") => (enc.closed /\ enc.code = 0)

\* C13: once the encoder's input is gone while frames remain, no frame is
\* written and the loop does not wait for 'drain'.
C13_AbortsOnSinkClosure ==
    /\ \A g \in Entries("gone") : \A w \in Entries("write") : w < g
    /\ (enc.closed /\ enc.code # 0 /\ MoreFrames(loop)) => loop.pc # "waiting"

\* What a call with the run's species, seed and config has after building
\* when it is the only call: structure, generator and transform.
Alone(run) ==
    With(BuildTree(run.species, Constructed[run.seedString], run.config),
         LAMBDA built :
    [tree |-> built.b, rand |-> built.rand,
     transform |-> IF run.species = "sakura" THEN NoTransform
                   ELSE AutoFit(calculateBounds(built.b), run.config)])

\* The lists the only call projects at p.
AloneLists(run, alone, p) ==
    CASE run.species \in Organic -> flattenTreeOrganic(alone.tree, p, alone.transform)
      [] run.species = "cedar" -> flattenTree(alone.tree, p, alone.transform)
      [] run.species = "sakura" -> renderBranch(alone.tree, p, SakuraScale(run.config))

-----------------------------------------------------------------------------
\* Frames: the video loop of Sakura.generate, frame by frame.  runs is the
\* call: what generate() built, the generator as the loop finds it, the
\* falling petals, and the frames rendered so far; loop is the frame counter.
\* Petal positions and velocities are in thousandths of a pixel, rotations in
\* thousandths of a degree.

MaxVideoFrames == 10

\* if (t > 0.4 && f % 5 === 0), t = f / totalFrames
SpawnsPetal(f, totalFrames) ==
    10 * f > 4 * totalFrames /\ f % 5 = 0

\* The petal pushed by a frame that drops one; the draws, in order: x, y,
\* size, rotation, velocity.x, velocity.y.
NewPetal(rand, config, scale) ==
    With((config.width * 2) \div 10,
         LAMBDA range :
    [x |-> 1000 * nextFloat(Advance(rand, 1), (config.width \div 2) - range,
                            (config.width \div 2) + range),
     y |-> 1000 * nextFloat(Advance(rand, 2), (config.height \div 2) - range,
                            (config.height \div 2) + range),
     size |-> nextFloat(Advance(rand, 3), Scaled(3000, scale), Scaled(8000, scale)),
     rotation |-> 1000 * nextFloat(Advance(rand, 4), 0, 360),
     velocity |-> Vector2(nextFloat(Advance(rand, 5), Scaled(-1000, scale), Scaled(1000, scale)),
                          nextFloat(Advance(rand, 6), Scaled(1000, scale), Scaled(3000, scale))),
     active |-> TRUE])

\* The petal pushed by the still image's simulation loop: the same draws,
\* the size drawn from 3 * scale to 12 * scale.
NewPhotoPetal(rand, config, scale) ==
    [NewPetal(rand, config, scale) EXCEPT
         !.size = nextFloat(Advance(rand, 3), Scaled(3000, scale), Scaled(12000, scale))]

\* The body of fallingPetals.forEach for one petal at frame f: an active
\* petal sways, falls and turns, and is switched off below the canvas.
MovePetal(petal, f, config) ==
    IF ~petal.active THEN petal
    ELSE [petal EXCEPT !.x = @ + petal.velocity.x + (Sin((f * 2865) \div 1000) \div 2),
                       !.y = @ + petal.velocity.y,
                       !.rotation = @ + 1146,
                       !.active = petal.y + petal.velocity.y <= 1000 * config.height]

\* What the frame draws of the petals: the active ones, where they were moved to.
DrawnPetals(before, after) ==
    [k \in 1..Len(SelectSeq([i \in 1..Len(before) |-> i], LAMBDA i : before[i].active)) |->
        LET i == SelectSeq([j \in 1..Len(before) |-> j], LAMBDA j : before[j].active)[k]
        IN  [x |-> after[i].x, y |-> after[i].y, size |-> after[i].size,
             rotation |-> after[i].rotation]]

\* const currentGrowthDist = t * maxDist * 1.2
GrowthDistAt(f, totalFrames, maxDist) ==
    (f * maxDist * 12) \div (totalFrames * 10)

\* One pass of the video loop for frame f on the generator and petals it
\* finds: the frame drawn, and the generator and petals it leaves.
RenderFrameOf(call, rand, fallingPetals, f, totalFrames) ==
    With(IF SpawnsPetal(f, totalFrames)
         THEN [rand |-> Advance(rand, 6),
               petals |-> Append(fallingPetals,
                                 NewPetal(rand, call.config, SakuraScale(call.config)))]
         ELSE [rand |-> rand, petals |-> fallingPetals],
         LAMBDA dropped :
    With([i \in 1..Len(dropped.petals) |-> MovePetal(dropped.petals[i], f, call.config)],
         LAMBDA moved :
    With(renderBranch(call.tree, GrowthDistAt(f, totalFrames, call.maxDistance),
                      SakuraScale(call.config)),
         LAMBDA lists :
    [rand |-> dropped.rand,
     fallingPetals |-> moved,
     frame |-> [f |-> f, branchList |-> lists.branchList, entityList |-> lists.entityList,
                petals |-> DrawnPetals(dropped.petals, moved)]])))

RECURSIVE PhotoPetalsFrom(_, _, _, _, _)

\* The still image's simulation loop from frame f on: the petals it leaves.
PhotoPetalsFrom(call, rand, fallingPetals, f, totalFrames) ==
    IF f >= totalFrames THEN fallingPetals
    ELSE With(IF SpawnsPetal(f, totalFrames)
              THEN [rand |-> Advance(rand, 6),
                    petals |-> Append(fallingPetals,
                                      NewPhotoPetal(rand, call.config,
                                                    SakuraScale(call.config)))]
              ELSE [rand |-> rand, petals |-> fallingPetals],
              LAMBDA dropped :
         PhotoPetalsFrom(call, dropped.rand,
                         [i \in 1..Len(dropped.petals) |->
                              MovePetal(dropped.petals[i], f, call.config)],
                         f + 1, totalFrames))

FramesInit ==
    /\ rngs = <<>>
    /\ enc = <<>>
    /\ \E seedString \in Seeds, config \in Configs, totalFrames \in 1..MaxVideoFrames :
           With(Generate(NewRun("sakura", seedString, config)),
                LAMBDA call :
                    /\ runs = [call |-> call, rand |-> call.rand, fallingPetals |-> <<>>,
                               frames |-> <<>>, photo |-> <<>>]
                    /\ loop = [f |-> 0, totalFrames |-> totalFrames])

\* for (let f = 0; f < totalFrames; f++) { ... }: one frame.
RenderFrame ==
    /\ loop.f < loop.totalFrames
    /\ With(RenderFrameOf(runs.call, runs.rand, runs.fallingPetals, loop.f, loop.totalFrames),
            LAMBDA done :
                runs' = [runs EXCEPT !.rand = done.rand,
                                     !.fallingPetals = done.fallingPetals,
                                     !.frames = Append(@, done.frame)])
    /\ loop' = [loop EXCEPT !.f = @ + 1]
    /\ UNCHANGED <<rngs, enc>>

\* The same call made with photoOnly set: the petals its simulation loop
\* leaves for the still image.
SimulatePetals ==
    /\ runs.photo = <<>>
    /\ runs' = [runs EXCEPT !.photo = <<PhotoPetalsFrom(runs.call, runs.call.rand, <<>>, 0,
                                                        loop.totalFrames)>>]
    /\ UNCHANGED <<rngs, enc, loop>>

FramesStep == RenderFrame \/ SimulatePetals

SpecFrames == FramesInit /\ [][FramesStep]_vars

\* C15: the frame rendered for a progress value depends on the built
\* structure and the progress alone: every frame of the loop is the frame
\* that is rendered when it is the only one rendered, and rendering leaves
\* the seeded generator where the builder left it.
C15_FrameDependsOnProgressOnly ==
    /\ runs.rand = runs.call.rand
    /\ \A k \in 1..Len(runs.frames) :
           runs.frames[k] =
               RenderFrameOf(runs.call, runs.call.rand, <<>>, runs.frames[k].f,
                             loop.totalFrames).frame

\* The depth generate() passes to the builder of the species.
InitialDepth(species) ==
    IF species = "cedar" THEN BuildDepth(cedarDepth) ELSE BuildDepth(maxDepth)

FloatInit ==
    /\ \E s \in Seeds : rngs = Construct([i \in Instances |-> NoInstance], 1, s)
    /\ runs = <<>>
    /\ enc = <<>>
    /\ loop = <<>>

FloatStep == RngNext(1) \/ RngNextFloat(1) \/ RngNextInt(1) \/ RngNextFloatDouble(1)

SpecFloat == FloatInit /\ [][FloatStep]_vars

\* The draws that called nextFloat in doubles, as <<instance, index>>.
DoubleDraws ==
    { d \in Instances \X (1..MaxDraws) :
          /\ d[2] <= Len(rngs[d[1]].out)
          /\ \E range \in DoubleRanges : range.op = rngs[d[1]].out[d[2]].op }

\* The state is an integer in [0, 2^32) and the returned value lies in [0, 1).
StateAndValueInRange ==
    \A i \in Instances :
        (rngs[i].made /\ rngs[i].out # <<>>) =>
            /\ ~rngs[i].seed.wide
            /\ rngs[i].seed.hi \in 0..65535 /\ rngs[i].seed.lo \in 0..65535
            /\ \A k \in 1..Len(rngs[i].out) :
                   /\ rngs[i].out[k].raw[1] \in 0..65535
                   /\ rngs[i].out[k].raw[2] \in 0..65535

\* min <= nextFloat(min, max) for the draw d.
AtLeastMin(d) ==
    LET v == rngs[d[1]].out[d[2]].val IN ~DigitsLess(v.value, Shift32(v.min))

\* nextFloat(min, max) < max for the draw d.
BelowMax(d) ==
    LET v == rngs[d[1]].out[d[2]].val
    IN  DigitsLess(v.value, Shift32(AddDigits(v.min, NatDigits(v.span), 0)))

\* The draw d rounded neither its product nor its sum.
Unrounded(d) ==
    LET v == rngs[d[1]].out[d[2]].val
        before == IF d[2] = 1 THEN Constructed[rngs[d[1]].seedString]
                  ELSE [wide |-> FALSE, hi |-> rngs[d[1]].out[d[2] - 1].raw[1],
                        lo |-> rngs[d[1]].out[d[2] - 1].raw[2]]
    IN  Trim(v.value) = Trim(NextFloatUnrounded(next(before), v.min, v.span))

\* The fixed-point nextFloat(-2000, 2000) and nextInt(2, 4) of the builders
\* stay in their ranges.
FixedPointInRange ==
    \A i \in Instances : \A k \in 1..Len(rngs[i].out) :
        /\ rngs[i].out[k].op = "nextFloat" =>
               (rngs[i].out[k].val >= -2000 /\ rngs[i].out[k].val < 2000)
        /\ rngs[i].out[k].op = "nextInt" => rngs[i].out[k].val \in 2..3

FitSeeds == {"abc", "15698"}

FitConfigs ==
    {[width |-> w, height |-> h, padding |-> p] :
         w \in {400, 1080}, h \in {400, 1080}, p \in {0, 50, 80, 100}}

\* What both methods compute before they return: the structure, its
\* bounding box and the transform; trunkStartPosition is {offsetX, offsetY},
\* kept as the numerators the transform keeps.
WeatheredFit(seedString, config) ==
    With(generateWeatheredTree(SeededRandom(seedString), Vector2(0, 0), 200, -90, maxDepth, 0,
                               <<>>).b,
         LAMBDA fullTree :
    With(AutoFit(calculateBounds(fullTree), config),
         LAMBDA fit :
    [lowest |-> SetMax(ExtentsY(fullTree)), start |-> fullTree.start, transform |-> fit,
     trunkStartPosition |-> [x2 |-> fit.offsetX2, y |-> fit.offsetY]]))

FitInit ==
    /\ rngs = <<>>
    /\ enc = <<>>
    /\ loop = <<>>
    /\ \E s \in FitSeeds, c \in FitConfigs :
           runs = [seedString |-> s, config |-> c, generated |-> <<>>, info |-> <<>>]

\* Weathered.generate with photoOnly set.
WeatheredGenerate ==
    /\ runs.generated = <<>>
    /\ runs' = [runs EXCEPT !.generated = <<WeatheredFit(runs.seedString, runs.config)>>]
    /\ UNCHANGED <<rngs, enc, loop>>

\* Weathered.getInfo.
WeatheredGetInfo ==
    /\ runs.info = <<>>
    /\ runs' = [runs EXCEPT !.info = <<WeatheredFit(runs.seedString, runs.config)>>]
    /\ UNCHANGED <<rngs, enc, loop>>

FitStep == WeatheredGenerate \/ WeatheredGetInfo

SpecFit == FitInit /\ [][FitStep]_vars

\* What the calls made so far returned.
FitResults == {runs.generated[i] : i \in 1..Len(runs.generated)}
                  \cup {runs.info[i] : i \in 1..Len(runs.info)}

\* canvasHeight - padding, as a numerator over the scale's denominator.
BottomMargin(res) == (runs.config.height - runs.config.padding) * res.transform.scale.den

\* C18 as stated: after auto-fit the root start (logical (0, 0)) is drawn at
\* y = canvasHeight - padding, and trunkStartPosition.y = canvasHeight -
\* padding.
C18_RootAtBottomMargin ==
    \A res \in FitResults :
        /\ TransformY(res.transform, res.start.y) = 2 * BottomMargin(res)
        /\ res.trunkStartPosition.y = BottomMargin(res)

\* C18, amended: after auto-fit the lowest point of the structure is drawn at
\* y = canvasHeight - padding; the root start is drawn at trunkStartPosition.y,
\* which is canvasHeight - padding less the scaled depth of the lowest point
\* below the root, and equals canvasHeight - padding exactly when no point of
\* the structure lies below the root.
C18_LowestPointAtBottomMargin ==
    \A res \in FitResults :
        /\ TransformY(res.transform, res.lowest) = 2 * BottomMargin(res)
        /\ TransformY(res.transform, res.start.y) = 2 * res.trunkStartPosition.y
        /\ res.trunkStartPosition.y
               = BottomMargin(res) - (res.lowest * res.transform.scale.num)
        /\ res.trunkStartPosition.y = BottomMargin(res) <=> res.lowest = 0

\* Both methods ran on a structure with a branch that droops below the root,
\* fitted by its width, and returned the same position above the margin.
C18_Witness ==
    /\ runs.generated # <<>> /\ runs.info # <<>>
    /\ runs.generated[1].lowest > 0
    /\ runs.generated[1].transform.byWidth
    /\ runs.generated[1].trunkStartPosition = runs.info[1].trunkStartPosition
    /\ runs.generated[1].trunkStartPosition.y < BottomMargin(runs.generated[1])
(***************************************************************************)
(* One call of generate() in either mode (specification SpecPhoto), on a   *)
(* registered species: the four that build a structure, and "Lit Tree"     *)
(* (LocalEntity), which cuts its picture out of a video file.              *)
(***************************************************************************)
PhotoSpecies == Species \cup {"littree"}

\* The frames a video of one frame's length (fps = durationSeconds = 1) is
\* written as: Cedar's loop runs f <= totalFrames, the others f < totalFrames;
\* Weathered.generate returns {} without a video.
FramesOfOne(species) ==
    CASE species = "cedar" -> 2
      [] species = "weathered" -> 0
      [] OTHER -> 1

\* What generate() did by the time it returned: the structure it built, the
\* lists the picture was drawn from, the image buffers made, the processes
\* spawned and the frames written to an encoder.
GenerateCall(species, seedString, config, photoOnly) ==
    IF species = "littree"
    THEN [built |-> <<>>, snap |-> <<>>, imageBuffers |-> 0,
          spawned |-> <<"ffprobe", "ffmpeg">>, written |-> 0]
    ELSE With(Generate(NewRun(species, seedString, config)), LAMBDA built :
         IF photoOnly
         THEN [built |-> <<built>>, snap |-> <<Snapshot(built, FinalProgress(built))>>,
               imageBuffers |-> 1, spawned |-> <<>>, written |-> 0]
         ELSE [built |-> <<built>>, snap |-> <<>>, imageBuffers |-> 0,
               spawned |-> IF species = "weathered" THEN <<>> ELSE <<"ffmpeg">>,
               written |-> FramesOfOne(species)])

PhotoInit ==
    /\ rngs = <<>>
    /\ enc = <<>>
    /\ loop = <<>>
    /\ \E species \in PhotoSpecies, s \in Seeds, c \in FitConfigs, photoOnly \in BOOLEAN :
           runs = [species |-> species, seedString |-> s, config |-> c,
                   photoOnly |-> photoOnly, returned |-> <<>>]

GenerateReturns ==
    /\ runs.returned = <<>>
    /\ runs' = [runs EXCEPT !.returned = <<GenerateCall(runs.species, runs.seedString,
                                                       runs.config, runs.photoOnly)>>]
    /\ UNCHANGED <<rngs, enc, loop>>

PhotoStep == GenerateReturns

SpecPhoto == PhotoInit /\ [][PhotoStep]_vars

\* The picture of the call shows every segment and entity of the structure
\* the call built at its full size.
AllGrown(call) ==
    \A t \in 1..Len(call.built) :
        \A k \in 1..Len(Preorder(call.built[t].tree)) :
            LET b == Preorder(call.built[t].tree)[k]
            IN  /\ SegmentFull(call.snap[1], b)
                /\ \A i \in 1..Len(b.entities) : EntityFull(call.snap[1], b, i)

\* One image buffer, no process spawned, no frame written.
OnePictureNoEncoder(call) ==
    call.imageBuffers = 1 /\ call.spawned = <<>> /\ call.written = 0

FullIn(branchList, id) ==
    \E n \in 1..Len(branchList) : branchList[n].of = id /\ IsOne(branchList[n].localT)

\* C20: in every snapshot, a child segment that is revealed (present with
\* localT > 0) has its parent present with localT = 1, and so every
\* ancestor up to the root.
C20_ParentFullBeforeChild ==
    \A r \in RunIds : \A s \in 1..Len(runs[r].snaps) :
        LET branchList == runs[r].snaps[s].branchList
        IN  \A m \in 1..Len(branchList) :
                branchList[m].localT.num > 0 =>
                    \A a \in 0..(Len(branchList[m].of) - 1) :
                        FullIn(branchList, SubSeq(branchList[m].of, 1, a))

\* A run of the organic projector with a snapshot in which a child of the
\* root is partly revealed, the root being full, and a snapshot in which a
\* grandchild of the root is revealed.
C20_Witness ==
    \E r \in RunIds : \E s, u \in 1..Len(runs[r].snaps) :
        /\ runs[r].species \in Organic
        /\ \E m \in 1..Len(runs[r].snaps[s].branchList) :
               /\ Len(runs[r].snaps[s].branchList[m].of) = 1
               /\ runs[r].snaps[s].branchList[m].localT.num > 0
               /\ ~IsOne(runs[r].snaps[s].branchList[m].localT)
               /\ FullIn(runs[r].snaps[s].branchList, <<>>)
        /\ \E m \in 1..Len(runs[r].snaps[u].branchList) :
               /\ Len(runs[r].snaps[u].branchList[m].of) = 2
               /\ runs[r].snaps[u].branchList[m].localT.num > 0
(***************************************************************************)
(* The gate, curve and stroke of a revealed segment (specification         *)
(* SpecGrow).                                                              *)
(***************************************************************************)
\* The entries of a snapshot's branchList that show the segment b.
EntriesOf(snap, b) ==
    {m \in 1..Len(snap.branchList) : snap.branchList[m].of = b.id}

\* C21: for every segment and progress distance p, the segment is omitted
\* when p <= distFromRoot and otherwise revealed with
\* localT = clamp((p - distFromRoot) / length, 0, 1), in every species'
\* projector, p = distFromRoot included.
C21_GateIsStrict ==
    \A r \in RunIds : \A s \in 1..Len(runs[r].snaps) :
        \A k \in 1..Len(Preorder(runs[r].tree)) :
            LET snap == runs[r].snaps[s]
                b == Preorder(runs[r].tree)[k]
            IN  IF snap.p <= b.distFromRoot
                THEN EntriesOf(snap, b) = {}
                ELSE \E m \in EntriesOf(snap, b) :
                         snap.branchList[m].localT
                             = CoerceUnit(snap.p - b.distFromRoot, b.length)

\* C22: the partially grown curve of a revealed segment is the De Casteljau
\* subdivision of its quadratic Bezier at localT, in every species: current
\* control = lerp(start, control, localT) and current end
\* = lerp(lerp(start, control, localT), lerp(control, end, localT), localT).
C22_CurveIsSubdivided ==
    \A r \in RunIds : \A s \in 1..Len(runs[r].snaps) :
        \A k \in 1..Len(Preorder(runs[r].tree)) :
            LET snap == runs[r].snaps[s]
                b == Preorder(runs[r].tree)[k]
                ts == Transformed(runs[r].transform, b.start)
                tc == Transformed(runs[r].transform, b.control)
                te == Transformed(runs[r].transform, b.end)
            IN  \A m \in EntriesOf(snap, b) :
                    LET shown == snap.branchList[m]
                    IN  /\ shown.start = ts
                        /\ shown.control
                               = CurrentControl(ts, tc, shown.localT.num, shown.localT.den)
                        /\ shown.end
                               = CurrentEnd(ts, tc, te, shown.localT.num, shown.localT.den)

\* C23: the stroke width of a revealed segment in the snapshot is its full
\* stroke width times the transform scale times localT, in every species'
\* projector.
C23_StrokeScalesWithLocalT ==
    \A r \in RunIds : \A s \in 1..Len(runs[r].snaps) :
        \A k \in 1..Len(Preorder(runs[r].tree)) :
            LET snap == runs[r].snaps[s]
                b == Preorder(runs[r].tree)[k]
                scale == runs[r].transform.scale
            IN  \A m \in EntriesOf(snap, b) :
                    snap.branchList[m].strokeWidth
                        = (b.strokeWidth * scale.num * snap.branchList[m].localT.num)
                              \div (scale.den * snap.branchList[m].localT.den)

(***************************************************************************)
(* The number of children (specification SpecGrow).                        *)
(***************************************************************************)
RECURSIVE CedarDepthAt(_, _, _)

\* The depth generateCedar was called with for the segment reached by the
\* rest of the path id from a segment of the given depth: the first child of
\* a trunk segment continues the trunk, its other children are side tiers.
CedarDepthAt(id, depth, isTrunk) ==
    IF id = <<>> THEN depth
    ELSE IF isTrunk /\ Head(id) # 1 THEN CedarDepthAt(Tail(id), TierDepth(depth), FALSE)
    ELSE CedarDepthAt(Tail(id), depth - 1, isTrunk)

\* The depth the builder of the species was called with for segment id.
DepthBuilt(species, id) ==
    IF species = "cedar" THEN CedarDepthAt(id, InitialDepth("cedar"), TRUE)
    ELSE InitialDepth(species) - Len(id)

\* C24: every segment built with depth > 0 has between 2 and 4 children, for
\* every species' builder and every seed.
C24_TwoToFourChildren ==
    \A r \in RunIds :
        Built(r) =>
            \A k \in 1..Len(Preorder(runs[r].tree)) :
                LET b == Preorder(runs[r].tree)[k]
                IN  DepthBuilt(runs[r].species, b.id) > 0 => Len(b.children) \in 2..4

(***************************************************************************)
(* One call of generateSakura (specification SpecTip), with the arguments  *)
(* its recursion can pass: a start inside the canvas enlarged by the       *)
(* margin (a segment that ends outside it gets no children), any angle.    *)
(***************************************************************************)
TipAngles == {-90, -45, 0, 90, 180}
TipDepths == 0..2

\* The start points: the canvas's corners, edge midpoints and centre, and
\* the root's start.
TipStarts(config) ==
    {Vector2(x, y) : x \in {0, config.width \div 2, config.width},
                     y \in {0, config.height \div 2, config.height,
                            config.height - Scaled(100, SakuraScale(config))}}

\* end.x < -margin || end.x > width + margin || end.y < -margin ||
\* end.y > height + margin, for margin = 50 * scale.
OutsideMargin(end, config) ==
    \/ end.x < 0 - Scaled(50, SakuraScale(config))
    \/ end.x > config.width + Scaled(50, SakuraScale(config))
    \/ end.y < 0 - Scaled(50, SakuraScale(config))
    \/ end.y > config.height + Scaled(50, SakuraScale(config))

TipInit ==
    /\ rngs = <<>>
    /\ enc = <<>>
    /\ loop = <<>>
    /\ \E s \in Seeds, c \in Configs, angle \in TipAngles, depth \in TipDepths :
           \E start \in TipStarts(c) :
               runs = [seedString |-> s, config |-> c, start |-> start, angle |-> angle,
                       depth |-> depth, built |-> <<>>]

\* generateSakura(rand, start, 180 * scale, angle, depth, 0, bounds, scale)
CallGenerateSakura ==
    /\ runs.built = <<>>
    /\ runs' = [runs EXCEPT !.built =
                    <<generateSakura(Constructed[runs.seedString], runs.start,
                                     Scaled(180, SakuraScale(runs.config)), runs.angle,
                                     runs.depth, 0,
                                     [width |-> runs.config.width,
                                      height |-> runs.config.height],
                                     SakuraScale(runs.config), <<>>).b>>]
    /\ UNCHANGED <<rngs, enc, loop>>

TipStep == CallGenerateSakura

SpecTip == TipInit /\ [][TipStep]_vars

\* C25: a Sakura segment whose end point lies outside the canvas enlarged by
\* the margin 50 * scale is built with depth forced to 0: it has no
\* children, while the segment itself and its blossoms are created (and a
\* segment built with depth > 0 that ends inside has children).
C25_OutsideIsTip ==
    \A t \in 1..Len(runs.built) :
        LET b == runs.built[t]
        IN  /\ b.start = runs.start
            /\ b.entities # <<>>
            /\ OutsideMargin(b.end, runs.config) =>
                   /\ b.children = <<>>
                   /\ b.strokeWidth = Scaled(10, SakuraScale(runs.config)) \div 10
            /\ (~OutsideMargin(b.end, runs.config) /\ runs.depth > 0) => b.children # <<>>

\* A call with depth 2 from the canvas's right edge, pointing right: the end
\* is outside, and the segment is a tip with blossoms.
C25_Witness ==
    /\ runs.built # <<>>
    /\ runs.depth = 2
    /\ runs.angle = 0
    /\ runs.start.x = runs.config.width
    /\ OutsideMargin(runs.built[1].end, runs.config)
    /\ runs.built[1].children = <<>>
    /\ runs.built[1].entities # <<>>

(***************************************************************************)
(* The progress distance of each frame of a video run (specification       *)
(* SpecSweep): generate() builds the structure, then its loop computes the *)
(* distance of frame after frame.  Weathered.generate makes no video.      *)
(***************************************************************************)
MaxSweepFrames == 4

VideoSpecies == {"pinkballs", "cedar", "sakura"}

\* The loop's test: Cedar runs f <= totalFrames, the others f < totalFrames.
SweepContinues(species, f, totalFrames) ==
    IF species = "cedar" THEN f <= totalFrames ELSE f < totalFrames

\* The progress distance of frame f, rounded down; nan marks the 0 / 0 of
\* PinkBallsTree's t = frame / (totalFrames - 1) for a single frame.
FrameProgress(run, f, totalFrames) ==
    CASE run.species = "pinkballs" ->
             IF totalFrames = 1 THEN [nan |-> TRUE, dist |-> 0]
             ELSE [nan |-> FALSE,
                   dist |-> (f * (run.maxDistance + 700)) \div (totalFrames - 1)]
      [] run.species = "cedar" ->
             [nan |-> FALSE, dist |-> (f * 3500) \div totalFrames]
      [] run.species = "sakura" ->
             [nan |-> FALSE, dist |-> GrowthDistAt(f, totalFrames, run.maxDistance)]

SweepInit ==
    /\ rngs = <<>>
    /\ enc = <<>>
    /\ \E species \in VideoSpecies, s \in Seeds, c \in Configs, totalFrames \in 1..MaxSweepFrames :
           /\ runs = NewRun(species, s, c)
           /\ loop = [totalFrames |-> totalFrames, f |-> 0, progress |-> <<>>, pc |-> "new"]

\* generate() up to its frame loop.
SweepBuild ==
    /\ loop.pc = "new"
    /\ runs' = Generate(runs)
    /\ loop' = [loop EXCEPT !.pc = "running"]
    /\ UNCHANGED <<rngs, enc>>

\* One pass of the loop, or its end.
SweepFrame ==
    /\ loop.pc = "running"
    /\ IF SweepContinues(runs.species, loop.f, loop.totalFrames)
       THEN loop' = [loop EXCEPT !.f = @ + 1,
                         !.progress = Append(@, FrameProgress(runs, loop.f, loop.totalFrames))]
       ELSE loop' = [loop EXCEPT !.pc = "done"]
    /\ UNCHANGED <<rngs, runs, enc>>

SweepStep == SweepBuild \/ SweepFrame

SpecSweep == SweepInit /\ [][SweepStep]_vars

\* C26: over a video run the progress distance is 0 for the first frame,
\* non-decreasing from frame to frame, and for the last frame equal to the
\* progress distance of the still image of the same structure, for every
\* species and every totalFrames >= 1.
C26_SweepReachesStill ==
    loop.pc = "done" =>
        /\ loop.progress # <<>>
        /\ \A k \in 1..Len(loop.progress) : ~loop.progress[k].nan
        /\ loop.progress[1].dist = 0
        /\ \A k \in 1..(Len(loop.progress) - 1) :
               loop.progress[k].dist <= loop.progress[k + 1].dist
        /\ loop.progress[Len(loop.progress)].dist = FinalProgress(runs)

(***************************************************************************)
(* The petals of the still image and of the video (specification           *)
(* SpecFrames).                                                            *)
(***************************************************************************)
\* C27: in Sakura the petal state the photo-mode simulation loop produces
\* equals the petal state after the last frame of the video loop for the
\* same seed and config: as many petals, with the same positions, sizes,
\* rotations and active flags.
C27_PhotoPetalsAreVideoPetals ==
    (runs.photo # <<>> /\ loop.f = loop.totalFrames) =>
        /\ Len(runs.photo[1]) = Len(runs.fallingPetals)
        /\ \A i \in 1..Len(runs.fallingPetals) :
               /\ runs.photo[1][i].x = runs.fallingPetals[i].x
               /\ runs.photo[1][i].y = runs.fallingPetals[i].y
               /\ runs.photo[1][i].size = runs.fallingPetals[i].size
               /\ runs.photo[1][i].rotation = runs.fallingPetals[i].rotation
               /\ runs.photo[1][i].active = runs.fallingPetals[i].active

(***************************************************************************)
(* Settling of the streaming calls (specification SpecStreamFair).         *)
(***************************************************************************)
\* The call's promise is settled: resolved or rejected.
Settled == loop.pc \in {"returned", "rejected"}

\* C28: every streaming generate() call eventually settles, resolved or
\* rejected, whatever the encoder does, also when the encoder exits or its
\* stdin closes before the frame loop has finished.
C28_EventuallySettles ==
    (loop.shape.kind # "run") => <>Settled

(***************************************************************************)
(* Wisteria (src/unnamed/part_005).                                        *)
(***************************************************************************)
safetyMargin == 60
willowDepth == 8

\* rand.nextFloat(0, 1) > 0.9 on the seed next() left: 0.9 * 2^32 is
\* 58982 * 65536 + 26214.4.
MoreThanNineTenths(seed) == seed.hi > 58982 \/ (seed.hi = 58982 /\ seed.lo > 26214)

\* Math.max(1, Math.pow(depth, 1.4) * 2.5), in whole units.
WillowStroke(depth) == <<1, 2, 6, 11, 17, 23, 30, 38, 45>>[depth + 1]

RECURSIVE generateWillowStructure(_, _, _, _, _, _, _, _)
RECURSIVE WillowChildren(_, _, _, _, _, _, _, _, _, _)

\* The loop over the children; the draws of one: angleVariation, length factor.
WillowChildren(rand, i, branchCount, end, length, angle, depth, maxDepthArg, currentDist, id) ==
    IF i >= branchCount THEN [children |-> <<>>, rand |-> rand]
    ELSE With(generateWillowStructure(Advance(rand, 2), end,
                                      (length * nextFloat(Advance(rand, 2), 700, 900)) \div 1000,
                                      angle + nextFloat(Advance(rand, 1), -45, 45), depth - 1,
                                      maxDepthArg, ChildDist(currentDist, length),
                                      Append(id, i + 1)),
              LAMBDA child :
         With(WillowChildren(child.rand, i + 1, branchCount, end, length, angle, depth,
                             maxDepthArg, currentDist, id),
              LAMBDA rest :
         [children |-> <<child.b>> \o rest.children, rand |-> rest.rand]))

\* The draws of one segment: angleOffset, perpLen, branchCount (depth > 0),
\* the children's, and below depth 6 the draw that decides on a foliage
\* image, followed by the image's rotation and scale when it is placed.
generateWillowStructure(rand, start, length, angle, depth, maxDepthArg, currentDist, id) ==
    With(EndPoint(start, length, angle + nextFloat(Advance(rand, 1), -20, 20)),
         LAMBDA end :
    With(IF depth > 0
         THEN WillowChildren(Advance(rand, 3), 0, nextInt(Advance(rand, 3), 2, 3), end,
                             length, angle, depth, maxDepthArg, currentDist, id)
         ELSE [children |-> <<>>, rand |-> Advance(rand, 2)],
         LAMBDA kids :
    With(IF depth < 6 /\ MoreThanNineTenths(Advance(kids.rand, 1))
         THEN [entities |-> <<[center |-> start,
                               rotation |-> nextFloat(Advance(kids.rand, 2), -500, 1000),
                               scale |-> nextFloat(Advance(kids.rand, 3), 200, 800),
                               distFromRoot |-> currentDist]>>,
               rand |-> Advance(kids.rand, 3)]
         ELSE [entities |-> <<>>,
               rand |-> IF depth < 6 THEN Advance(kids.rand, 1) ELSE kids.rand],
         LAMBDA img :
    [b |-> Branch(id, start, end, WillowStroke(depth),
                  ControlPoint(start, end, length, nextFloat(Advance(rand, 2), -200, 200)),
                  length, currentDist, kids.children, img.entities),
     rand |-> img.rand])))

RECURSIVE WillowExtentsX(_)
RECURSIVE WillowExtentsY(_)

\* The x coordinates Wisteria's calculateBounds folds over in the subtree of b.
WillowExtentsX(b) ==
    {b.start.x, b.end.x, b.control.x}
        \cup UNION {{b.entities[i].center.x - safetyMargin,
                     b.entities[i].center.x + safetyMargin} : i \in 1..Len(b.entities)}
        \cup UNION {WillowExtentsX(b.children[i]) : i \in 1..Len(b.children)}

\* The y coordinates Wisteria's calculateBounds folds over in the subtree of b.
WillowExtentsY(b) ==
    {b.start.y, b.end.y, b.control.y}
        \cup UNION {{b.entities[i].center.y - safetyMargin,
                     b.entities[i].center.y + safetyMargin} : i \in 1..Len(b.entities)}
        \cup UNION {WillowExtentsY(b.children[i]) : i \in 1..Len(b.children)}

WillowBounds(b) ==
    [minX |-> SetMin(WillowExtentsX(b)), maxX |-> SetMax(WillowExtentsX(b)),
     minY |-> SetMin(WillowExtentsY(b)), maxY |-> SetMax(WillowExtentsY(b))]

(***************************************************************************)
(* getInfo() and generate() of the generators that implement getInfo       *)
(* (specification SpecInfo): both are called with one config, and each     *)
(* returns trunkStartPosition = {offsetX, offsetY}, kept as the numerators *)
(* the transform keeps, with the denominator of its scale.                 *)
(***************************************************************************)
InfoSpecies == {"cedar", "weathered", "wisteria"}

InfoSeeds == {"abc", "0", "1", "15698"}

InfoConfigs ==
    Configs \cup {[width |-> 400, height |-> 400, padding |-> 0],
                  [width |-> 1080, height |-> 1080, padding |-> 50]}

\* { x: offsetX, y: offsetY } of a transform.
TrunkStart(fit) == [x2 |-> fit.offsetX2, y |-> fit.offsetY, den |-> fit.scale.den]

\* getInfo(config).trunkStartPosition.
GetInfoOf(species, seedString, config) ==
    CASE species = "cedar" ->
             TrunkStart(AutoFit(calculateBounds(
                 generateCedar(SeededRandom(seedString), Vector2(0, 0), 220, -90,
                               BuildDepth(cedarDepth), 0, TRUE, <<>>).b), config))
      [] species = "weathered" ->
             TrunkStart(AutoFit(calculateBounds(
                 generateWeatheredTree(SeededRandom(seedString), Vector2(0, 0), 200, -90,
                                       BuildDepth(maxDepth), 0, <<>>).b), config))
      [] species = "wisteria" ->
             TrunkStart(AutoFit(WillowBounds(
                 generateWillowStructure(SeededRandom(seedString), Vector2(0, 0), 180, -90,
                                         BuildDepth(willowDepth), BuildDepth(willowDepth), 0,
                                         <<>>).b), config))

\* generate(con, onStream, config).trunkStartPosition, photoOnly set.
GenerateOf(species, seedString, config) ==
    CASE species = "cedar" ->
             TrunkStart(AutoFit(calculateBounds(
                 generateCedar(SeededRandom(seedString), Vector2(0, 0), 220, -90,
                               BuildDepth(cedarDepth), 0, TRUE, <<>>).b), config))
      [] species = "weathered" ->
             TrunkStart(AutoFit(calculateBounds(
                 generateWeatheredTree(SeededRandom(seedString), Vector2(0, 0), 200, -90,
                                       BuildDepth(maxDepth), 0, <<>>).b), config))
      [] species = "wisteria" ->
             TrunkStart(AutoFit(WillowBounds(
                 generateWillowStructure(SeededRandom(seedString), Vector2(0, 0), 160, -90,
                                         BuildDepth(willowDepth), BuildDepth(willowDepth), 0,
                                         <<>>).b), config))

InfoInit ==
    /\ rngs = <<>>
    /\ enc = <<>>
    /\ loop = <<>>
    /\ \E species \in InfoSpecies, s \in InfoSeeds, c \in InfoConfigs :
           runs = [species |-> species, seedString |-> s, config |-> c,
                   generated |-> <<>>, info |-> <<>>]

CallGenerate ==
    /\ runs.generated = <<>>
    /\ runs' = [runs EXCEPT
                    !.generated = <<GenerateOf(runs.species, runs.seedString, runs.config)>>]
    /\ UNCHANGED <<rngs, enc, loop>>

CallGetInfo ==
    /\ runs.info = <<>>
    /\ runs' = [runs EXCEPT !.info = <<GetInfoOf(runs.species, runs.seedString, runs.config)>>]
    /\ UNCHANGED <<rngs, enc, loop>>

InfoStep == CallGenerate \/ CallGetInfo

SpecInfo == InfoInit /\ [][InfoStep]_vars

\* Two positions are the same point: their fractions are equal.
SamePosition(a, b) == a.x2 * b.den = b.x2 * a.den /\ a.y * b.den = b.y * a.den

\* C29: for one config getInfo() returns the trunkStartPosition generate()
\* returns, for every generator that implements getInfo (Cedar, Weathered,
\* Wisteria).
C29_InfoMatchesGenerate ==
    (runs.generated # <<>> /\ runs.info # <<>>) =>
        SamePosition(runs.info[1], runs.generated[1])

(***************************************************************************)
(* The isometric grid (src/src/server.ts, src/src/grid_video.ts,           *)
(* src/unnamed/part_006): specification SpecGrid.  GRID_CONFIG is the one  *)
(* module-level object every call writes and reads; a call is a sequence   *)
(* of steps, each running from one await to the next.                      *)
(***************************************************************************)
SCALE == 4
tileWidth == 100 * SCALE
grassHeight == 15 * SCALE
soilHeight == 40 * SCALE

MaxGridDim == 3

\* calculateCanvasDimensions(gridSize)
calculateCanvasDimensions(gridSize) ==
    LET totalGridWidth == (gridSize * 2) * (tileWidth \div 2)
        calculatedWidth == totalGridWidth + (100 * SCALE)
        calculatedHeight == (gridSize * (tileWidth \div 2))
                                + ((soilHeight + grassHeight) * 2) + (200 * SCALE)
        canvasSize == Max(calculatedWidth, calculatedHeight)
    IN  [width |-> canvasSize, height |-> canvasSize]

\* generateGridPositions(gridSize, canvasWidth): row by row.
generateGridPositions(gridSize, canvasWidth) ==
    [i \in 1..(gridSize * gridSize) |->
        LET x == (i - 1) % gridSize
            y == (i - 1) \div gridSize
        IN  [gridX |-> x, gridY |-> y,
             pixelX |-> (canvasWidth \div 2) + ((x - y) * (tileWidth \div 2)),
             pixelY |-> (150 * SCALE) + ((x + y) * (tileWidth \div 4)) + (tileWidth \div 4)]]

RECURSIVE GridDimFrom(_, _, _)

\* The loop that finds maxGridDim, from tree i on.
GridDimFrom(trees, i, maxGridDim) ==
    IF i > Len(trees) THEN maxGridDim
    ELSE With(IF trees[i].gridX > maxGridDim - 1 THEN trees[i].gridX + 1 ELSE maxGridDim,
              LAMBDA afterX :
         GridDimFrom(trees, i + 1,
                     IF trees[i].gridY > afterX - 1 THEN trees[i].gridY + 1 ELSE afterX))

\* The tree lists the calls are made with.
TreeLists ==
    LET Tree(p, x, y) == [imagePath |-> p, gridX |-> x, gridY |-> y]
    IN  {<<>>, <<Tree("a.png", 0, 0)>>, <<Tree("a.png", 1, 0)>>,
         <<Tree("a.png", 0, MaxGridDim - 1)>>,
         <<Tree("a.png", 0, 0), Tree("b.png", 1, 1)>>,
         <<Tree("a.png", 0, 0), Tree("a.png", MaxGridDim - 1, 1)>>}

GridCalls == {1, 2}

\* A call not yet made.  canvas, positions and videoSize are <<>> until the
\* call creates or computes them.
NewGridCall(kind, trees, dataFilename) ==
    [kind |-> kind, trees |-> trees, dataFilename |-> dataFilename, pc |-> "new",
     i |-> 1, loaded |-> {}, canvas |-> <<>>, positions |-> <<>>, tiles |-> 0,
     videoSize |-> <<>>]

GridInit ==
    /\ rngs = <<>>
    /\ enc = <<>>
    /\ loop = <<>>
    /\ \E trees \in TreeLists, dataFilename \in BOOLEAN,
          other \in {NewGridCall("generateGrid", t, FALSE) : t \in TreeLists}
                        \cup {NewGridCall("generateGridVideo", <<>>, FALSE)} :
           runs = [GRID_CONFIG |-> [gridSize |-> 0, canvasWidth |-> 0, canvasHeight |-> 0],
                   calls |-> <<NewGridCall("generateGrid", trees, dataFilename), other>>]

\* The first tree from i on whose image is not loaded yet: where the image
\* loop awaits next, or Len(trees) + 1 when it is through.
RECURSIVE NextLoad(_, _, _)
NextLoad(trees, i, loaded) ==
    IF i > Len(trees) \/ trees[i].imagePath \notin loaded THEN i
    ELSE NextLoad(trees, i + 1, loaded)

\* generateGrid from the end of the image loop to `await canvas.encode`:
\* the positions are generated from GRID_CONFIG and one block is drawn for
\* each.
AfterImageLoop(call, config) ==
    With(generateGridPositions(config.gridSize, config.canvasWidth),
         LAMBDA positions :
    [call EXCEPT !.positions = <<positions>>, !.tiles = Len(positions), !.pc = "encoding"])

\* generateGrid from the image loop at tree i to its next await.
ImageLoop(call, config) ==
    With(NextLoad(call.trees, call.i, call.loaded),
         LAMBDA j :
    IF j <= Len(call.trees) THEN [call EXCEPT !.i = j, !.pc = "loading"]
    ELSE AfterImageLoop([call EXCEPT !.i = j], config))

\* generateGrid is called: it sets GRID_CONFIG, creates its canvas and runs
\* to its first await.
GridStart(c) ==
    /\ runs.calls[c].kind = "generateGrid"
    /\ runs.calls[c].pc = "new"
    /\ LET maxGridDim == GridDimFrom(runs.calls[c].trees, 1, 1)
           dimensions == calculateCanvasDimensions(maxGridDim)
           config == [gridSize |-> maxGridDim, canvasWidth |-> dimensions.width,
                      canvasHeight |-> dimensions.height]
       IN  runs' = [runs EXCEPT
                        !.GRID_CONFIG = config,
                        !.calls[c] = ImageLoop([@ EXCEPT
                                                    !.canvas = <<[width |-> config.canvasWidth,
                                                                  height |-> config.canvasHeight]>>],
                                               config)]
    /\ UNCHANGED <<rngs, enc, loop>>

\* loadImage settles: the image is kept when it loaded, and the call runs to
\* its next await.
GridLoaded(c) ==
    /\ runs.calls[c].kind = "generateGrid"
    /\ runs.calls[c].pc = "loading"
    /\ \E ok \in BOOLEAN :
           runs' = [runs EXCEPT
                        !.calls[c] =
                            ImageLoop([@ EXCEPT
                                           !.i = @ + 1,
                                           !.loaded = IF ok
                                                      THEN @ \cup {runs.calls[c].trees[runs.calls[c].i].imagePath}
                                                      ELSE @],
                                      runs.GRID_CONFIG)]
    /\ UNCHANGED <<rngs, enc, loop>>

\* canvas.encode settles: the picture is written next.
GridEncoded(c) ==
    /\ runs.calls[c].pc = "encoding"
    /\ runs' = [runs EXCEPT !.calls[c].pc = "writing"]
    /\ UNCHANGED <<rngs, enc, loop>>

\* writeFile settles.  generateGrid writes the positions next when it has a
\* dataFilename and returns otherwise; generateGridVideo builds the encoder's
\* arguments with the canvas size it reads from GRID_CONFIG.
GridWritten(c) ==
    /\ runs.calls[c].pc = "writing"
    /\ LET call == runs.calls[c]
       IN  runs' = [runs EXCEPT
                        !.calls[c] =
                            IF call.kind = "generateGridVideo"
                            THEN [call EXCEPT
                                      !.videoSize = <<[width |-> runs.GRID_CONFIG.canvasWidth,
                                                       height |-> runs.GRID_CONFIG.canvasHeight]>>,
                                      !.pc = "returned"]
                            ELSE [call EXCEPT !.pc = IF call.dataFilename THEN "writingData"
                                                     ELSE "returned"]]
    /\ UNCHANGED <<rngs, enc, loop>>

\* The positions file is written: generateGrid returns.
GridDataWritten(c) ==
    /\ runs.calls[c].pc = "writingData"
    /\ runs' = [runs EXCEPT !.calls[c].pc = "returned"]
    /\ UNCHANGED <<rngs, enc, loop>>

\* generateGridVideo is called: it awaits the anchor image first.
VideoStart(c) ==
    /\ runs.calls[c].kind = "generateGridVideo"
    /\ runs.calls[c].pc = "new"
    /\ runs' = [runs EXCEPT !.calls[c].pc = "loading"]
    /\ UNCHANGED <<rngs, enc, loop>>

\* The anchor image is loaded: generateGridVideo sets GRID_CONFIG for one
\* tile, creates its canvas and draws the tile.
VideoLoaded(c) ==
    /\ runs.calls[c].kind = "generateGridVideo"
    /\ runs.calls[c].pc = "loading"
    /\ LET dimensions == calculateCanvasDimensions(1)
       IN  runs' = [runs EXCEPT
                        !.GRID_CONFIG = [gridSize |-> 1, canvasWidth |-> dimensions.width,
                                         canvasHeight |-> dimensions.height],
                        !.calls[c] = [@ EXCEPT !.canvas = <<dimensions>>, !.tiles = 1,
                                               !.pc = "encoding"]]
    /\ UNCHANGED <<rngs, enc, loop>>

GridStep ==
    \E c \in GridCalls :
        \/ GridStart(c)
        \/ GridLoaded(c)
        \/ GridEncoded(c)
        \/ GridWritten(c)
        \/ GridDataWritten(c)
        \/ VideoStart(c)
        \/ VideoLoaded(c)

SpecGrid == GridInit /\ [][GridStep]_vars

\* C30: concurrent generateGrid calls do not interfere through GRID_CONFIG:
\* each call draws, and returns positions for, exactly gridSize * gridSize
\* tiles, gridSize being max(1, the largest gridX or gridY of its own trees
\* plus 1), on a canvas of its own computed dimensions, also when another
\* generateGrid or generateGridVideo call runs between its awaits.
C30_GridCallsDoNotInterfere ==
    \A c \in GridCalls :
        LET call == runs.calls[c]
            gridSize == Max(1, SetMax({0} \cup {call.trees[i].gridX + 1 : i \in 1..Len(call.trees)}
                                          \cup {call.trees[i].gridY + 1 : i \in 1..Len(call.trees)}))
        IN  (call.kind = "generateGrid" /\ call.positions # <<>>) =>
                /\ call.tiles = gridSize * gridSize
                /\ Len(call.positions[1]) = gridSize * gridSize
                /\ call.canvas[1] = calculateCanvasDimensions(gridSize)
                /\ call.positions[1]
                       = generateGridPositions(gridSize, calculateCanvasDimensions(gridSize).width)
====
